---- MODULE Spec2Model ----
(***************************************************************************)
(* cronclaw: the tick engine.                                              *)
(*                                                                         *)
(* The persistent state is the pipeline definitions (pipeline.yaml), the   *)
(* per-pipeline state files (state.json), the per-pipeline state locks     *)
(* (state.lock), the installation-wide lock and the workspace files.      *)
(* Every caller is one operating-system process executing either           *)
(* runner::run_pipeline directly or the run command around it; its       *)
(* position is pc[c] and its local values are the variables indexed by c.  *)
(* One action is one step of the code between two accesses to shared       *)
(* state; fs::write and fs::rename are taken as atomic.                    *)
(***************************************************************************)
EXTENDS Integers, Sequences, FiniteSets, TLC

VARIABLES
    pipeline_yaml,  \* [Pipes -> Option(Pipeline)]   pipeline.yaml of each pipeline directory
    state_json,     \* [Pipes -> Option(State)]      state.json of each pipeline directory
    workspace,      \* [Pipes -> [Paths -> 0..MaxContent]]  files of the workspace, 0 = absent
    workspace_dir,  \* [Pipes -> BOOLEAN]           the workspace directory exists
    state_lock,     \* [Pipes -> Callers \cup {Free}] holder of state.lock
    pc,             \* [Callers -> position in run_pipeline]
    pipeline_dir,   \* [Callers -> Pipes]            argument of run_pipeline
    pipeline,       \* [Callers -> Pipeline]         the loaded definition
    state,          \* [Callers -> Option(State)]    acquire_ticket's state, then ticket.state
    ticket,         \* [Callers -> [step_index, step_id, timeout_secs]]
    exec,           \* [Callers -> Result]           what execute_step returned
    result,         \* [Callers -> Result]           what run_pipeline returned
    seen,           \* [Callers -> Option(State)]    history: the state this call decided on
    wrote,          \* [Callers -> BOOLEAN]          history: this call changed a persisted status
    spawned,        \* [Callers -> BOOLEAN]          history: this call spawned a process
    claims,         \* [Pipes -> [Ids -> 0..MaxCount]] history: claims of each step so far
    ticks,          \* [Pipes -> 0..MaxTicks]       history: calls of run_pipeline that returned
    okrun,          \* [Pipes -> BOOLEAN]           history: every call so far returned Ok
    lock,           \* Callers \cup {Free}          holder of the installation-wide lock
    home,           \* BOOLEAN                      the installation directory exists
    cmd,            \* [Callers -> position in cmd_run]
    entries,        \* [Callers -> SUBSET Pipes]    directory entries cmd_run has still to visit
    errors,         \* [Callers -> Seq(message)]    the errors vector of cmd_run
    attempted,      \* [Callers -> Seq([dir, res])] history: the calls of run_pipeline this
                    \*                              invocation made and what they returned
    exit_code,      \* [Callers -> -1..1]           exit status of the invocation, -1 = none yet
    printed,        \* [Callers -> [stdout, stderr]] what this call wrote on its own stdout and
                    \*                              stderr of the streams it captured, 0 = nothing
    command,        \* [Callers -> Option(Command)] the process this call spawned
    resolved,       \* [Callers -> Option(String)]  execute_step's prompt, once resolved
    pipe,           \* [Callers -> [stdout, stderr]] blocks that the process of this call's
                    \*                              step has written into each captured pipe
                    \*                              and that nobody has read yet
    openclaw_bin,   \* Option(program)              the environment variable OPENCLAW_BIN
    after_reset     \* [Pipes -> {"no", "waiting"} \cup Callers] history: a reset deleted the
                    \*   state and no tick has started since ("waiting"), or the caller whose
                    \*   tick was the first to start since

disk   == <<pipeline_yaml, state_json, workspace, workspace_dir>>
locals == <<pipeline_dir, pipeline, state, ticket, exec, result>>
hist   == <<seen, wrote, spawned, claims>>
seqv   == <<ticks, okrun>>
io     == <<printed, command, resolved, pipe>>
env    == <<openclaw_bin>>
marks  == <<after_reset>>
cli    == <<lock, home, cmd, entries, errors, attempted, exit_code>>
vars   == <<pipeline_yaml, state_json, workspace, workspace_dir, state_lock, pc, pipeline_dir,
            pipeline, state, ticket, exec, result, seen, wrote, spawned, claims,
            ticks, okrun, lock, home, cmd, entries, errors, attempted, exit_code,
            printed, command, resolved, pipe, openclaw_bin, after_reset>>

(***************************************************************************)
(* Bounds                                                                  *)
(***************************************************************************)
MaxContent == 1     \* distinct contents a file can hold
MaxCount   == 2     \* the claim counter saturates here
MaxTicks   == 4     \* calls of run_pipeline per pipeline in the sequential specification
PipeCapacity == 2   \* blocks of 32 KiB that a pipe holds before a write to it blocks
MaxOutputs == 2     \* outputs a step declares in the specifications of the promotion
MaxPieces  == 3     \* pieces of a prompt in the specification of the template resolution
MaxSteps   == 2     \* steps of a document in the specification of the parsing

Callers == {"c1", "c2"}
Pipes   == {"p1", "p2"}
Ids     == {"a", "b", "c"}
Paths   == {"t1", "f1"}
Free    == "free"

(***************************************************************************)
(* Option<T> as a sequence of length at most one                           *)
(***************************************************************************)
NoneOpt    == << >>
Some(x)    == << x >>
IsSome(o)  == Len(o) = 1
Unwrap(o)  == o[1]

(***************************************************************************)
(* Result<(), String>; an error message is the sequence of its pieces      *)
(***************************************************************************)
Ok           == [ok |-> TRUE, err |-> << >>]
Err(msg)     == [ok |-> FALSE, err |-> msg]
Contains(msg, w) == \E i \in 1..Len(msg) : msg[i] = w
NoResult     == [ok |-> FALSE, err |-> <<"(pending)">>]

(***************************************************************************)
(* config.rs: the default step timeout in seconds, and Config::default()   *)
(***************************************************************************)
DEFAULT_TIMEOUT == 300

cfg == [timeout |-> DEFAULT_TIMEOUT]

\* a timeout a step declares for itself
StepTimeout == 600

\* what a process writes on its stdout and on its stderr: contents no file of
\* the workspace holds before
StdoutContent == MaxContent + 3
StderrContent == MaxContent + 4
ZeroesContent == MaxContent + 5

(***************************************************************************)
(* pipeline.rs: Step, Output, Pipeline                                     *)
(***************************************************************************)
\* a String is the sequence of its pieces; a file-inclusion macro is one piece
Text(w) == << w >>

\* StreamTarget: Terminal when the field is absent, Void for null, File for a string
Terminal == <<"terminal">>
Void     == <<"void">>
File(p)  == <<"file", p>>

Output(n, p, t) == [name |-> n, path |-> p, tmp |-> t]

\* Step with every field of the struct
FullStep(i, ty, ag, pr, out, er, sh, to, outs) ==
    [id |-> i, step_type |-> ty, agent |-> ag, prompt |-> pr, output |-> out,
     error |-> er, bash |-> sh, timeout |-> to, outputs |-> outs]

\* a script that prints nothing, an agent and a prompt without macros
QuietScript == <<"true">>
MainAgent   == "main"
PlainPrompt == <<"Analyse this data">>

\* a well-formed step of either type whose streams go to the terminal
Step(i, ty, to, outs) ==
    IF ty = "bash"
    THEN FullStep(i, ty, NoneOpt, NoneOpt, Terminal, Terminal, Some(QuietScript), to, outs)
    ELSE FullStep(i, ty, Some(MainAgent), Some(PlainPrompt), Terminal, Terminal, NoneOpt,
                  to, outs)

\* a pipeline.yaml document: the version key may be missing and the type of
\* a step may be any word
Document(v, w, ss) == [version |-> v, workspace |-> w, steps |-> ss]

Pipeline(w, ss) == Document(Some(1), w, ss)

StepIds(pl) == {pl.steps[k].id : k \in 1..Len(pl.steps)}

\* the definitions the model is run on
Def3 == Pipeline("workspace",
          << Step("a", "bash", NoneOpt, << Output("out", "f1", "t1") >>),
             Step("b", "bash", Some(StepTimeout), << >>),
             Step("c", "bash", NoneOpt, << >>) >>)
Def2 == Pipeline("workspace",
          << Step("a", "bash", NoneOpt, << >>),
             Step("b", "agent", NoneOpt, << >>) >>)
Def0 == Pipeline("workspace", << >>)
Defs == {Def3, Def2, Def0}

NoPipeline == Pipeline("", << >>)

(***************************************************************************)
(* state.rs                                                                *)
(***************************************************************************)
StepStatus == {"pending", "running", "completed", "failed"}

\* State::from_pipeline: one entry per step id, all Pending
from_pipeline(pl) == [i \in StepIds(pl) |-> "pending"]

\* state::load
load(p) == state_json[p]

\* state::save, as the new value of state_json
save(p, s) == [state_json EXCEPT ![p] = Some(s)]

\* faulty variant: the status is assigned to every entry
SetStatusAll(s, i, st) == [j \in DOMAIN s |-> st]

\* state.steps.get_mut(id).unwrap().status = st
SetStatus(s, i, st) == [s EXCEPT ![i] = st]

(***************************************************************************)
(* runner.rs: acquire_ticket, the verification of the id sets              *)
(***************************************************************************)
\* faulty variant: only the steps of the definition are looked up in the state
IdsMatchSubset(pl, s) == StepIds(pl) \subseteq DOMAIN s

IdsMatch(pl, s) == StepIds(pl) = DOMAIN s

MismatchError(name) ==
    Err(<<"[", name, "]", "state file ", "mismatch",
          " - steps in pipeline.yaml don't match state.json. Consider ",
          "reset", "ting the pipeline with cronclaw ", "reset", name, ".">>)

(***************************************************************************)
(* Faulty variants of the scan, used to test that the properties below     *)
(* depend on it.  mode names the fault.                                    *)
(***************************************************************************)
RECURSIVE ScanVariant(_, _, _, _)
ScanVariant(pl, s, i, mode) ==
    IF i > Len(pl.steps) THEN (IF mode = "rerun" THEN Len(pl.steps) ELSE 0)
    ELSE LET st == s[pl.steps[i].id] IN
         CASE st = "completed" -> ScanVariant(pl, s, i + 1, mode)
           [] st = "running"   -> IF mode = "reclaim" THEN i
                                  ELSE IF mode = "skip_running"
                                       THEN ScanVariant(pl, s, i + 1, mode) ELSE 0
           [] st = "failed"    -> IF mode = "retry" THEN i
                                  ELSE IF mode = "skip_failed"
                                       THEN ScanVariant(pl, s, i + 1, mode) ELSE 0
           [] st = "pending"   -> i

\* a Running step is claimed again
ScanStepsReclaim(pl, s, i) == ScanVariant(pl, s, i, "reclaim")
\* a Failed step is claimed again
ScanStepsRetry(pl, s, i) == ScanVariant(pl, s, i, "retry")
\* a Failed step is passed over like a Completed one
ScanStepsSkipFailed(pl, s, i) == ScanVariant(pl, s, i, "skip_failed")
\* a finished pipeline runs its last step again
ScanStepsRerun(pl, s, i) == ScanVariant(pl, s, i, "rerun")
\* a Running step is passed over like a Completed one
ScanStepsSkipRunning(pl, s, i) == ScanVariant(pl, s, i, "skip_running")

\* the steps are scanned from the last to the first
ScanStepsLast(pl, s, i) ==
    LET N == {k \in i..Len(pl.steps) : s[pl.steps[k].id] # "completed"} IN
    IF N = {} THEN 0
    ELSE LET k == CHOOSE k \in N : \A j \in N : j <= k IN
         IF s[pl.steps[k].id] = "pending" THEN k ELSE 0

(***************************************************************************)
(* runner.rs: acquire_ticket, the scan for the next actionable step.       *)
(* The result is the index of the step to claim, or 0 for Ok(None).        *)
(***************************************************************************)
RECURSIVE ScanSteps(_, _, _)
ScanSteps(pl, s, i) ==
    IF i > Len(pl.steps) THEN 0
    ELSE LET st == s[pl.steps[i].id] IN
         CASE st = "completed" -> ScanSteps(pl, s, i + 1)
           [] st = "running"   -> 0
           [] st = "failed"    -> 0
           [] st = "pending"   -> i

(***************************************************************************)
(* runner.rs: promote_outputs over a workspace; the result is the pair of  *)
(* the Result and the workspace it leaves                                  *)
(***************************************************************************)
\* fs::rename: the file at from replaces the file at to; nothing happens when
\* both name the same file
rename(ws, from, to) ==
    IF from = to THEN ws ELSE [ws EXCEPT ![to] = ws[from], ![from] = 0]

\* faulty variant: an output whose tmp file is missing is passed over
RECURSIVE promote_outputs_skip_missing(_, _, _)
promote_outputs_skip_missing(outs, ws, k) ==
    IF k > Len(outs) THEN [res |-> Ok, ws |-> ws]
    ELSE LET o == outs[k] IN
         IF ws[o.tmp] = 0
         THEN promote_outputs_skip_missing(outs, ws, k + 1)
         ELSE promote_outputs_skip_missing(outs, rename(ws, o.tmp, o.path), k + 1)

\* faulty variant: the tmp file is copied to the final path and left in place
RECURSIVE promote_outputs_copy(_, _, _)
promote_outputs_copy(outs, ws, k) ==
    IF k > Len(outs) THEN [res |-> Ok, ws |-> ws]
    ELSE LET o == outs[k] IN
         IF ws[o.tmp] = 0
         THEN [res |-> Err(<<"output '", o.name, "': tmp file '", o.tmp,
                             "' ", "not found", " after step completed">>),
               ws  |-> ws]
         ELSE promote_outputs_copy(outs, [ws EXCEPT ![o.path] = ws[o.tmp]], k + 1)

RECURSIVE promote_outputs(_, _, _)
promote_outputs(outs, ws, k) ==
    IF k > Len(outs) THEN [res |-> Ok, ws |-> ws]
    ELSE LET o == outs[k] IN
         IF ws[o.tmp] = 0
         THEN [res |-> Err(<<"output '", o.name, "': tmp file '", o.tmp,
                             "' ", "not found", " after step completed">>),
               ws  |-> ws]
         ELSE promote_outputs(outs, rename(ws, o.tmp, o.path), k + 1)

(***************************************************************************)
(* runner.rs: resolve_templates.  The regex matches the macro pieces of    *)
(* the input; MacroTable gives the path each of them captures.             *)
(***************************************************************************)
MacroTable ==
    [m \in {"{{file:f1}}", "{{ file:f1 }}", "{{  file:  f1  }}"} |-> "f1"]
    @@ [m \in {"{{file:t1}}", "{{ file:t1 }}"} |-> "t1"]
    @@ [m \in {"{{file:nowhere}}"} |-> "nowhere"]

IsMacro(t) == t \in DOMAIN MacroTable

\* re.captures_iter(input): the full matches, in the order of the input
Matches(input) == SelectSeq(input, IsMacro)

\* the macro texts a file can hold as part of its content
QuotedMacros == <<"{{file:f1}}", "{{ file:t1 }}">>

\* the String a file with content v holds: plain text for the contents 1..MaxContent,
\* text with a macro in it for the contents above
Content(v) ==
    IF v <= MaxContent THEN <<"text ", ToString(v)>>
    ELSE <<"quote ", QuotedMacros[v - MaxContent]>>

\* the content of the file at a path of the workspace, 0 when there is none
FileAt(ws, f) == IF f \in DOMAIN ws THEN ws[f] ELSE 0

\* str::replace: every occurrence of from becomes to
RECURSIVE Replace(_, _, _)
Replace(text, from, to) ==
    IF text = << >> THEN << >>
    ELSE (IF Head(text) = from THEN to ELSE << Head(text) >>)
         \o Replace(Tail(text), from, to)

\* faulty variant: a macro whose file cannot be read is left in the text
RECURSIVE ResolveMatchesLenient(_, _, _, _, _)
ResolveMatchesLenient(matches, k, result_text, ws, dir) ==
    IF k > Len(matches) THEN [res |-> Ok, text |-> result_text]
    ELSE LET full_match == matches[k]
             v          == FileAt(ws, MacroTable[full_match])
         IN ResolveMatchesLenient(matches, k + 1,
                IF v = 0 THEN result_text ELSE Replace(result_text, full_match, Content(v)),
                ws, dir)

\* the loop over the collected matches; the result is the pair of the Result
\* and the String it carries
RECURSIVE ResolveMatches(_, _, _, _, _)
ResolveMatches(matches, k, result_text, ws, dir) ==
    IF k > Len(matches) THEN [res |-> Ok, text |-> result_text]
    ELSE LET full_match == matches[k]
             file_path  == MacroTable[full_match]
             v          == FileAt(ws, file_path)
         IN IF v = 0
            THEN [res  |-> Err(<<"template '", full_match, "': failed to read '",
                                 dir, "/", file_path, "': ", "No such file or directory">>),
                  text |-> << >>]
            ELSE ResolveMatches(matches, k + 1,
                                Replace(result_text, full_match, Content(v)), ws, dir)

resolve_templates(input, ws, dir) == ResolveMatches(Matches(input), 1, input, ws, dir)

(***************************************************************************)
(* Initial state: pipelines are installed, nothing has run yet             *)
(***************************************************************************)
NoTicket == [step_index |-> 0, step_id |-> "", timeout_secs |-> 0]
NoOutput == [stdout |-> 0, stderr |-> 0]

InitLocals ==
    /\ pc = [c \in Callers |-> "idle"]
    /\ pipeline_dir = [c \in Callers |-> "p1"]
    /\ pipeline = [c \in Callers |-> NoPipeline]
    /\ state = [c \in Callers |-> NoneOpt]
    /\ ticket = [c \in Callers |-> NoTicket]
    /\ exec = [c \in Callers |-> NoResult]
    /\ result = [c \in Callers |-> NoResult]
    /\ seen = [c \in Callers |-> NoneOpt]
    /\ wrote = [c \in Callers |-> FALSE]
    /\ spawned = [c \in Callers |-> FALSE]
    /\ claims = [p \in Pipes |-> [i \in Ids |-> 0]]
    /\ ticks = [p \in Pipes |-> 0]
    /\ okrun = [p \in Pipes |-> TRUE]
    /\ lock = Free
    /\ cmd = [c \in Callers |-> "none"]
    /\ entries = [c \in Callers |-> {}]
    /\ errors = [c \in Callers |-> << >>]
    /\ attempted = [c \in Callers |-> << >>]
    /\ exit_code = [c \in Callers |-> -1]
    /\ printed = [c \in Callers |-> NoOutput]
    /\ pipe = [c \in Callers |-> NoOutput]
    /\ command = [c \in Callers |-> NoneOpt]
    /\ resolved = [c \in Callers |-> NoneOpt]
    /\ after_reset = [p \in Pipes |-> "no"]
    /\ workspace_dir = [p \in Pipes |-> \E f \in DOMAIN workspace[p] : workspace[p][f] # 0]

InitDisk ==
    /\ state_json = [p \in Pipes |-> NoneOpt]
    /\ workspace = [p \in Pipes |-> [f \in Paths |-> 0]]
    /\ state_lock = [p \in Pipes |-> Free]

Init ==
    /\ pipeline_yaml \in [Pipes -> {Some(d) : d \in Defs}]
    /\ home = TRUE
    /\ openclaw_bin = NoneOpt
    /\ InitDisk
    /\ InitLocals

(***************************************************************************)
(* run_pipeline, step by step                                              *)
(***************************************************************************)
Set(f, c, v) == [f EXCEPT ![c] = v]

Released(c) == [p \in Pipes |-> IF state_lock[p] = c THEN Free ELSE state_lock[p]]

\* the call returns r: position "done"; the state lock, if held, is dropped
Finish(c, r) ==
    /\ pc' = Set(pc, c, "done")
    /\ result' = Set(result, c, r)
    /\ state_lock' = Released(c)

(***************************************************************************)
(* pipeline.rs: parse and load                                             *)
(***************************************************************************)
StepTypes == {"agent", "bash"}

\* serde_yaml::from_str: Ok(()) when the document is a Pipeline, else its error
from_str(doc) ==
    IF doc.version = NoneOpt THEN Err(<<"missing field ", "version">>)
    ELSE IF \E k \in 1..Len(doc.steps) : doc.steps[k].step_type \notin StepTypes
    THEN Err(<<"unknown variant ",
               doc.steps[CHOOSE k \in 1..Len(doc.steps) :
                           /\ doc.steps[k].step_type \notin StepTypes
                           /\ \A j \in 1..(k - 1) : doc.steps[j].step_type \in StepTypes
                        ].step_type>>)
    ELSE Ok

\* faulty variant: an agent step is rejected only when it has no agent
RECURSIVE ValidateAgentOnly(_, _)
ValidateAgentOnly(steps, k) ==
    IF k > Len(steps) THEN Ok
    ELSE LET step == steps[k] IN
         IF step.step_type = "bash" /\ step.bash = NoneOpt
         THEN Err(<<"step '", step.id, "': type is bash but 'bash' field is missing">>)
         ELSE IF step.step_type = "agent" /\ step.agent = NoneOpt
         THEN Err(<<"step '", step.id,
                    "': type is agent but 'agent' or 'prompt' field is missing">>)
         ELSE ValidateAgentOnly(steps, k + 1)

\* parse: the loop over the steps, which returns at the first step that
\* lacks a field of its type
RECURSIVE Validate(_, _)
Validate(steps, k) ==
    IF k > Len(steps) THEN Ok
    ELSE LET step == steps[k] IN
         IF step.step_type = "bash" /\ step.bash = NoneOpt
         THEN Err(<<"step '", step.id, "': type is bash but 'bash' field is missing">>)
         ELSE IF step.step_type = "agent" /\ (step.agent = NoneOpt \/ step.prompt = NoneOpt)
         THEN Err(<<"step '", step.id,
                    "': type is agent but 'agent' or 'prompt' field is missing">>)
         ELSE Validate(steps, k + 1)

\* parse, as the Result without its Pipeline: the Pipeline is the document
parse(doc) ==
    IF ~from_str(doc).ok
    THEN Err(<<"failed to parse pipeline: ">> \o from_str(doc).err)
    ELSE Validate(doc.steps, 1)

\* run_pipeline entry and pipeline::load
LoadPipeline(c, p) ==
    /\ pc[c] = "idle"
    /\ pipeline_dir' = Set(pipeline_dir, c, p)
    /\ seen' = Set(seen, c, NoneOpt)
    /\ wrote' = Set(wrote, c, FALSE)
    /\ spawned' = Set(spawned, c, FALSE)
    /\ printed' = Set(printed, c, NoOutput)
    /\ pipe' = Set(pipe, c, NoOutput)
    /\ command' = Set(command, c, NoneOpt)
    /\ resolved' = Set(resolved, c, NoneOpt)
    /\ IF ~IsSome(pipeline_yaml[p])
       THEN /\ pipeline' = Set(pipeline, c, NoPipeline)
            /\ Finish(c, Err(<<"failed to read ", p, "/pipeline.yaml">>))
       ELSE IF ~parse(Unwrap(pipeline_yaml[p])).ok
       THEN /\ pipeline' = Set(pipeline, c, NoPipeline)
            /\ Finish(c, Err(<<p, "/pipeline.yaml", ": ">>
                                \o parse(Unwrap(pipeline_yaml[p])).err))
       ELSE /\ pipeline' = Set(pipeline, c, Unwrap(pipeline_yaml[p]))
            /\ pc' = Set(pc, c, "lock")
            /\ result' = Set(result, c, NoResult)
            /\ UNCHANGED state_lock
    /\ UNCHANGED <<disk, state, ticket, exec, claims>>

\* faulty variant: the lock is taken although another caller holds it
LockStateShared(c) ==
    /\ pc[c] = "lock"
    /\ state_lock' = Set(state_lock, pipeline_dir[c], c)
    /\ pc' = Set(pc, c, "load_state")
    /\ UNCHANGED <<disk, locals, hist, io, seqv, env, marks, cli>>

\* faulty variant: the lock file is created and never locked
LockStateSkipped(c) ==
    /\ pc[c] = "lock"
    /\ pc' = Set(pc, c, "load_state")
    /\ UNCHANGED <<disk, state_lock, locals, hist, io, seqv, env, marks, cli>>

\* acquire_ticket: File::create(state.lock) and lock_exclusive, which blocks
LockState(c) ==
    /\ pc[c] = "lock"
    /\ state_lock[pipeline_dir[c]] = Free
    /\ state_lock' = Set(state_lock, pipeline_dir[c], c)
    /\ pc' = Set(pc, c, "load_state")
    /\ UNCHANGED <<disk, locals, hist, io, seqv, env, marks, cli>>

\* acquire_ticket: state::load
LoadState(c) ==
    /\ pc[c] = "load_state"
    /\ LET o == load(pipeline_dir[c]) IN
       IF IsSome(o)
       THEN /\ state' = Set(state, c, o)
            /\ seen' = Set(seen, c, o)
            /\ pc' = Set(pc, c, "select")
       ELSE /\ pc' = Set(pc, c, "create_state")
            /\ UNCHANGED <<state, seen>>
    /\ UNCHANGED <<disk, state_lock, pipeline_dir, pipeline, ticket, exec, result,
                   wrote, spawned, io, claims, seqv, env, marks, cli>>

\* faulty variant: the fresh state is kept in memory and not written
CreateStateUnsaved(c) ==
    /\ pc[c] = "create_state"
    /\ LET s == from_pipeline(pipeline[c]) IN
       /\ state' = Set(state, c, Some(s))
       /\ seen' = Set(seen, c, Some(s))
    /\ workspace_dir' = [workspace_dir EXCEPT ![pipeline_dir[c]] = TRUE]
    /\ pc' = Set(pc, c, "select")
    /\ UNCHANGED <<pipeline_yaml, state_json, workspace, state_lock, pipeline_dir, pipeline,
                   ticket, exec, result, wrote, spawned, io, claims, seqv, env, marks, cli>>

\* fs::create_dir_all(&workspace)
create_dir_all(p) == [workspace_dir EXCEPT ![p] = TRUE]

\* acquire_ticket: no state file; create_dir_all, State::from_pipeline, state::save
CreateState(c) ==
    /\ pc[c] = "create_state"
    /\ LET s == from_pipeline(pipeline[c]) IN
       /\ state_json' = save(pipeline_dir[c], s)
       /\ state' = Set(state, c, Some(s))
       /\ seen' = Set(seen, c, Some(s))
    /\ workspace_dir' = create_dir_all(pipeline_dir[c])
    /\ pc' = Set(pc, c, "select")
    /\ UNCHANGED <<pipeline_yaml, workspace, state_lock, pipeline_dir, pipeline, ticket,
                   exec, result, wrote, spawned, io, claims, seqv, env, marks, cli>>

\* acquire_ticket: step.timeout.unwrap_or(cfg.timeout)
effective_timeout(st) == IF IsSome(st.timeout) THEN Unwrap(st.timeout) ELSE cfg.timeout

\* faulty variant: the lock file lives in the ticket, the lock is held until the
\* call returns
SelectStepKeepsLock(c) ==
    /\ pc[c] = "select"
    /\ LET p == pipeline_dir[c]
           s == Unwrap(state[c])
       IN IF ~IdsMatch(pipeline[c], s)
          THEN /\ Finish(c, MismatchError(p))
               /\ UNCHANGED <<disk, state, ticket, wrote, claims>>
          ELSE LET i == ScanSteps(pipeline[c], s, 1) IN
               IF i = 0
               THEN /\ Finish(c, Ok)
                    /\ UNCHANGED <<disk, state, ticket, wrote, claims>>
               ELSE LET id == pipeline[c].steps[i].id
                        s2 == SetStatus(s, id, "running")
                    IN /\ state' = Set(state, c, Some(s2))
                       /\ state_json' = save(p, s2)
                       /\ ticket' = Set(ticket, c,
                              [step_index |-> i, step_id |-> id,
                               timeout_secs |-> effective_timeout(pipeline[c].steps[i])])
                       /\ pc' = Set(pc, c, "execute")
                       /\ wrote' = Set(wrote, c, TRUE)
                       /\ claims' = [claims EXCEPT ![p][id] =
                                        IF @ < MaxCount THEN @ + 1 ELSE @]
                       /\ UNCHANGED <<pipeline_yaml, workspace_dir, workspace, result,
                                      state_lock>>
    /\ UNCHANGED <<pipeline_dir, pipeline, exec, seen, spawned, io, seqv, env, marks, cli>>

\* acquire_ticket: verify the id sets, scan, claim the first Pending step
SelectStep(c) ==
    /\ pc[c] = "select"
    /\ LET p == pipeline_dir[c]
           s == Unwrap(state[c])
       IN IF ~IdsMatch(pipeline[c], s)
          THEN /\ Finish(c, MismatchError(p))
               /\ UNCHANGED <<disk, state, ticket, wrote, claims>>
          ELSE LET i == ScanSteps(pipeline[c], s, 1) IN
               IF i = 0
               THEN /\ Finish(c, Ok)
                    /\ UNCHANGED <<disk, state, ticket, wrote, claims>>
               ELSE LET id == pipeline[c].steps[i].id
                        s2 == SetStatus(s, id, "running")
                    IN /\ state' = Set(state, c, Some(s2))
                       /\ state_json' = save(p, s2)
                       /\ ticket' = Set(ticket, c,
                              [step_index |-> i, step_id |-> id,
                               timeout_secs |-> effective_timeout(pipeline[c].steps[i])])
                       /\ state_lock' = Released(c)
                       /\ pc' = Set(pc, c, "execute")
                       /\ wrote' = Set(wrote, c, TRUE)
                       /\ claims' = [claims EXCEPT ![p][id] =
                                        IF @ < MaxCount THEN @ + 1 ELSE @]
                       /\ UNCHANGED <<pipeline_yaml, workspace_dir, workspace, result>>
    /\ UNCHANGED <<pipeline_dir, pipeline, exec, seen, spawned, io, seqv, env, marks, cli>>

TicketStep(c) == pipeline[c].steps[ticket[c].step_index]

\* Command::new(program).args(args).current_dir(dir)
Command(program, args, dir) == [program |-> program, args |-> args, dir |-> dir]

(***************************************************************************)
(* openclaw.rs                                                             *)
(***************************************************************************)
\* values of an environment variable that are not valid Unicode
NotUnicode == {"/opt/\\xff/openclaw"}

\* std::env::var("OPENCLAW_BIN"): Err when the variable is not set or its
\* value is not valid Unicode
env_var_OPENCLAW_BIN ==
    IF IsSome(openclaw_bin) /\ Unwrap(openclaw_bin) \notin NotUnicode
    THEN openclaw_bin ELSE NoneOpt

\* resolve_binary: env::var("OPENCLAW_BIN").unwrap_or_else(|_| "openclaw")
resolve_binary ==
    IF IsSome(env_var_OPENCLAW_BIN) THEN Unwrap(env_var_OPENCLAW_BIN) ELSE "openclaw"

\* faulty variant: the agent is passed as the message and the prompt as the recipient
build_command_swapped(agent, prompt, dir, timeout_secs) ==
    Command(resolve_binary,
            << Text("agent"), Text("--message"), Text(agent), Text("--to"), prompt,
               Text("--local"), Text("--timeout"), Text(ToString(timeout_secs)) >>,
            dir)

\* build_command
build_command(agent, prompt, dir, timeout_secs) ==
    Command(resolve_binary,
            << Text("agent"), Text("--message"), prompt, Text("--to"), Text(agent),
               Text("--local"), Text("--timeout"), Text(ToString(timeout_secs)) >>,
            dir)

\* execute_step, Bash arm: Command::new("sh").arg("-c").arg(script).current_dir(workspace)
ShCommand(st, dir) == Command("sh", << Text("-c"), Unwrap(st.bash) >>, dir)

\* execute_step, Agent arm: resolve_templates(raw_prompt, workspace)
ResolvedPrompt(c) ==
    resolve_templates(Unwrap(TicketStep(c).prompt), workspace[pipeline_dir[c]],
                      pipeline[c].workspace)

\* execute_step: a bash step spawns sh -c; an agent step resolves its prompt
\* and fails without spawning anything
ExecuteStep(c) ==
    /\ pc[c] = "execute"
    /\ IF TicketStep(c).step_type = "bash"
       THEN \/ /\ pc' = Set(pc, c, "child")
               /\ spawned' = Set(spawned, c, TRUE)
               /\ command' = Set(command, c,
                                 Some(ShCommand(TicketStep(c), pipeline[c].workspace)))
               /\ UNCHANGED <<exec, resolved>>
            \/ /\ pc' = Set(pc, c, "save_failed")
               /\ exec' = Set(exec, c, Err(<<"failed to spawn">>))
               /\ UNCHANGED <<spawned, command, resolved>>
       ELSE /\ pc' = Set(pc, c, "save_failed")
            /\ IF ResolvedPrompt(c).res.ok
               THEN /\ resolved' = Set(resolved, c, Some(ResolvedPrompt(c).text))
                    /\ exec' = Set(exec, c, Err(<<"agent steps are not yet implemented">>))
               ELSE /\ exec' = Set(exec, c, ResolvedPrompt(c).res)
                    /\ UNCHANGED resolved
            /\ UNCHANGED <<spawned, command>>
    /\ UNCHANGED <<disk, state_lock, pipeline_dir, pipeline, state, ticket, result,
                   seen, wrote, claims, printed, pipe, seqv, env, marks, cli>>

\* the tmp paths a step declares
TmpPaths(st) == {st.outputs[k].tmp : k \in 1..Len(st.outputs)}

\* what the process of the claimed step leaves in the workspace: some of its
\* tmp files, written with some content
ChildWrites(c) ==
    \E W \in SUBSET TmpPaths(TicketStep(c)), v \in 1..MaxContent :
        workspace' = [workspace EXCEPT ![pipeline_dir[c]] =
                         [f \in DOMAIN @ |-> IF f \in W THEN v ELSE @[f]]]

\* the most blocks a script of the model writes
MaxVolume == PipeCapacity + 1

\* a script that writes n blocks of zeroes on one of its streams and exits
\* with status 0
ZeroesScript(n, stream) ==
    <<"head -c $((", ToString(n), "*32768)) /dev/zero",
      IF stream = "stderr" THEN " >&2" ELSE "">>

\* the blocks a script writes on a stream; the echo of a word is no block
Volume(script, stream) ==
    IF \E n \in 0..MaxVolume : script = ZeroesScript(n, stream)
    THEN CHOOSE n \in 0..MaxVolume : script = ZeroesScript(n, stream)
    ELSE 0

\* what a script writes on its stdout and on its stderr, 0 = nothing
Stdout(script) ==
    IF Contains(script, "echo out") THEN StdoutContent
    ELSE IF Volume(script, "stdout") > 0 THEN ZeroesContent ELSE 0
Stderr(script) ==
    IF Contains(script, "echo err >&2") THEN StderrContent
    ELSE IF Volume(script, "stderr") > 0 THEN ZeroesContent ELSE 0

\* wait_with_output: the two streams of the process, captured through the pipes
Captured(c) ==
    LET script == Unwrap(TicketStep(c).bash) IN
    [stdout |-> Stdout(script), stderr |-> Stderr(script)]

\* run_with_timeout: try_wait finds the process exited; the captured streams
\* are written on the caller's own stdout and stderr, and the status decides
ChildExit(c) ==
    /\ pc[c] \in {"child", "child_expired"}
    /\ ChildWrites(c)
    /\ printed' = Set(printed, c, Captured(c))
    /\ pipe' = Set(pipe, c, NoOutput)
    /\ \/ /\ exec' = Set(exec, c, Ok)
          /\ pc' = Set(pc, c, "promote")
       \/ /\ exec' = Set(exec, c, Err(<<"exited with code ", "1">>))
          /\ pc' = Set(pc, c, "save_failed")
    /\ UNCHANGED <<pipeline_yaml, workspace_dir, state_json, state_lock, pipeline_dir, pipeline, state,
                   ticket, result, hist, command, resolved, seqv, env, marks, cli>>

\* run_with_timeout: the process is still running and start.elapsed() reaches
\* the timeout
TimeoutElapses(c) ==
    /\ pc[c] = "child"
    /\ pc' = Set(pc, c, "child_expired")
    /\ UNCHANGED <<disk, state_lock, locals, hist, io, seqv, env, marks, cli>>

\* faulty variant: the error carries the default timeout, not the ticket's
KillChildDefault(c) ==
    /\ pc[c] = "child_expired"
    /\ ChildWrites(c)
    /\ exec' = Set(exec, c, Err(<<"timed out after ", ToString(cfg.timeout), "s">>))
    /\ pc' = Set(pc, c, "save_failed")
    /\ UNCHANGED <<pipeline_yaml, workspace_dir, state_json, state_lock, pipeline_dir, pipeline, state,
                   ticket, result, hist, io, seqv, env, marks, cli>>

\* run_with_timeout: try_wait finds the process running after the timeout;
\* child.kill(), child.wait(), and the timeout error
KillChild(c) ==
    /\ pc[c] = "child_expired"
    /\ ChildWrites(c)
    /\ exec' = Set(exec, c, Err(<<"timed out after ", ToString(ticket[c].timeout_secs), "s">>))
    /\ pipe' = Set(pipe, c, NoOutput)
    /\ pc' = Set(pc, c, "save_failed")
    /\ UNCHANGED <<pipeline_yaml, workspace_dir, state_json, state_lock, pipeline_dir, pipeline,
                   state, ticket, result, hist, printed, command, resolved, seqv, env, marks,
                   cli>>

\* faulty variant: a failed promotion is handled like a failed execution
PromoteMarksFailed(c) ==
    /\ pc[c] = "promote"
    /\ LET r == promote_outputs(TicketStep(c).outputs, workspace[pipeline_dir[c]], 1) IN
       /\ workspace' = [workspace EXCEPT ![pipeline_dir[c]] = r.ws]
       /\ IF r.res.ok
          THEN /\ pc' = Set(pc, c, "save_completed")
               /\ UNCHANGED exec
          ELSE /\ pc' = Set(pc, c, "save_failed")
               /\ exec' = Set(exec, c, r.res)
    /\ UNCHANGED <<pipeline_yaml, workspace_dir, state_json, state_lock, pipeline_dir, pipeline, state,
                   ticket, result, hist, io, seqv, env, marks, cli>>

\* run_pipeline, Ok arm: promote_outputs(step, &workspace)?
Promote(c) ==
    /\ pc[c] = "promote"
    /\ LET r == promote_outputs(TicketStep(c).outputs, workspace[pipeline_dir[c]], 1) IN
       /\ workspace' = [workspace EXCEPT ![pipeline_dir[c]] = r.ws]
       /\ IF r.res.ok
          THEN /\ pc' = Set(pc, c, "save_completed")
               /\ UNCHANGED <<result, state_lock>>
          ELSE Finish(c, r.res)
    /\ UNCHANGED <<pipeline_yaml, workspace_dir, state_json, pipeline_dir, pipeline, state, ticket,
                   exec, hist, io, seqv, env, marks, cli>>

\* run_pipeline, Ok arm: the status becomes Completed and ticket.state is saved
SaveCompleted(c) ==
    /\ pc[c] = "save_completed"
    /\ LET s2 == SetStatus(Unwrap(state[c]), ticket[c].step_id, "completed") IN
       /\ state' = Set(state, c, Some(s2))
       /\ state_json' = save(pipeline_dir[c], s2)
    /\ wrote' = Set(wrote, c, TRUE)
    /\ Finish(c, Ok)
    /\ UNCHANGED <<pipeline_yaml, workspace_dir, workspace, pipeline_dir, pipeline, ticket, exec,
                   seen, spawned, io, claims, seqv, env, marks, cli>>

\* faulty variant: the error is returned and the status is not saved
SaveFailedUnsaved(c) ==
    /\ pc[c] = "save_failed"
    /\ Finish(c, Err(<<"[", pipeline_dir[c], "] step '", ticket[c].step_id,
                       "' failed: ">> \o exec[c].err))
    /\ UNCHANGED <<disk, pipeline_dir, pipeline, state, ticket, exec, hist, io, seqv, env, marks, cli>>

\* faulty variant: the outputs are promoted before the failure is saved
SaveFailedPromotes(c) ==
    /\ pc[c] = "save_failed"
    /\ LET s2 == SetStatus(Unwrap(state[c]), ticket[c].step_id, "failed") IN
       /\ state' = Set(state, c, Some(s2))
       /\ state_json' = save(pipeline_dir[c], s2)
    /\ workspace' = [workspace EXCEPT ![pipeline_dir[c]] =
           promote_outputs(TicketStep(c).outputs, workspace[pipeline_dir[c]], 1).ws]
    /\ wrote' = Set(wrote, c, TRUE)
    /\ Finish(c, Err(<<"[", pipeline_dir[c], "] step '", ticket[c].step_id,
                       "' failed: ">> \o exec[c].err))
    /\ UNCHANGED <<pipeline_yaml, workspace_dir, pipeline_dir, pipeline, ticket, exec,
                   seen, spawned, io, claims, seqv, env, marks, cli>>

\* run_pipeline, Err arm: the status becomes Failed and ticket.state is saved
SaveFailed(c) ==
    /\ pc[c] = "save_failed"
    /\ LET s2 == SetStatus(Unwrap(state[c]), ticket[c].step_id, "failed") IN
       /\ state' = Set(state, c, Some(s2))
       /\ state_json' = save(pipeline_dir[c], s2)
    /\ wrote' = Set(wrote, c, TRUE)
    /\ Finish(c, Err(<<"[", pipeline_dir[c], "] step '", ticket[c].step_id,
                       "' failed: ">> \o exec[c].err))
    /\ UNCHANGED <<pipeline_yaml, workspace_dir, workspace, pipeline_dir, pipeline, ticket, exec,
                   seen, spawned, io, claims, seqv, env, marks, cli>>

\* the steps of run_pipeline after the definition is loaded
Steps(c) ==
    \/ LockState(c)
    \/ LoadState(c)
    \/ CreateState(c)
    \/ SelectStep(c)
    \/ ExecuteStep(c)
    \/ ChildExit(c)
    \/ TimeoutElapses(c)
    \/ KillChild(c)
    \/ Promote(c)
    \/ SaveCompleted(c)
    \/ SaveFailed(c)

\* the values a caller holds when it is not inside run_pipeline
ClearLocals(c) ==
    /\ pc' = Set(pc, c, "idle")
    /\ pipeline_dir' = Set(pipeline_dir, c, "p1")
    /\ pipeline' = Set(pipeline, c, NoPipeline)
    /\ state' = Set(state, c, NoneOpt)
    /\ ticket' = Set(ticket, c, NoTicket)
    /\ exec' = Set(exec, c, NoResult)
    /\ result' = Set(result, c, NoResult)
    /\ seen' = Set(seen, c, NoneOpt)
    /\ wrote' = Set(wrote, c, FALSE)
    /\ spawned' = Set(spawned, c, FALSE)
    /\ printed' = Set(printed, c, NoOutput)
    /\ pipe' = Set(pipe, c, NoOutput)
    /\ command' = Set(command, c, NoneOpt)
    /\ resolved' = Set(resolved, c, NoneOpt)

(***************************************************************************)
(* Spec: run_pipeline called directly by concurrent callers, any of which  *)
(* may die at any point; no reset, the definitions are not edited          *)
(***************************************************************************)
Call(c) ==
    /\ \E p \in Pipes : LoadPipeline(c, p)
    /\ UNCHANGED <<seqv, env, marks, cli>>

\* the caller has taken the result of run_pipeline
Return(c) ==
    /\ pc[c] = "done"
    /\ ClearLocals(c)
    /\ UNCHANGED <<disk, state_lock, claims, seqv, env, marks, cli>>

\* the process of the caller dies inside run_pipeline; the operating system
\* releases the file locks it holds
Crash(c) ==
    /\ pc[c] \notin {"idle", "done"}
    /\ ClearLocals(c)
    /\ state_lock' = Released(c)
    /\ UNCHANGED <<disk, claims, seqv, env, marks, cli>>

Next ==
    \/ \E c \in Callers : Call(c)
    \/ \E c \in Callers : Steps(c)
    \/ \E c \in Callers : Return(c)
    \/ \E c \in Callers : Crash(c)

Spec == Init /\ [][Next]_vars

(***************************************************************************)
(* SpecSeq: one caller ticks the pipelines one call after the other        *)
(***************************************************************************)
SeqCaller == "c1"

SeqCall ==
    /\ \E p \in Pipes : ticks[p] < MaxTicks /\ LoadPipeline(SeqCaller, p)
    /\ UNCHANGED <<seqv, env, marks, cli>>

SeqReturn ==
    /\ pc[SeqCaller] = "done"
    /\ ticks' = [ticks EXCEPT ![pipeline_dir[SeqCaller]] = @ + 1]
    /\ okrun' = [okrun EXCEPT ![pipeline_dir[SeqCaller]] = @ /\ result[SeqCaller].ok]
    /\ ClearLocals(SeqCaller)
    /\ UNCHANGED <<disk, state_lock, claims, env, marks, cli>>

NextSeq ==
    \/ SeqCall
    \/ Steps(SeqCaller)
    \/ SeqReturn

SpecSeq == Init /\ [][NextSeq]_vars

(***************************************************************************)
(* SpecTimeout: the sequential caller under fairness of the supervising    *)
(* code and of the clock only: the process of a step need never exit       *)
(***************************************************************************)
\* the steps of run_pipeline that are steps of cronclaw's own code
Supervise(c) ==
    \/ LockState(c)
    \/ LoadState(c)
    \/ CreateState(c)
    \/ SelectStep(c)
    \/ ExecuteStep(c)
    \/ KillChild(c)
    \/ Promote(c)
    \/ SaveCompleted(c)
    \/ SaveFailed(c)

SpecTimeout ==
    /\ Init /\ [][NextSeq]_vars
    /\ WF_vars(Supervise(SeqCaller))
    /\ WF_vars(TimeoutElapses(SeqCaller))

(***************************************************************************)
(* SpecEdit: concurrent callers of run_pipeline on one pipeline whose      *)
(* pipeline.yaml the user rewrites at any time                             *)
(***************************************************************************)
EditedPipe == "p1"

EditCall(c) ==
    /\ LoadPipeline(c, EditedPipe)
    /\ UNCHANGED <<seqv, env, marks, cli>>

EditPipeline ==
    /\ \E d \in Defs : pipeline_yaml' = Set(pipeline_yaml, EditedPipe, Some(d))
    /\ pipeline_yaml' # pipeline_yaml
    /\ UNCHANGED <<state_json, workspace, workspace_dir, state_lock, pc,
                   locals, hist, io, seqv, env, marks, cli>>

NextEdit ==
    \/ \E c \in Callers : EditCall(c)
    \/ \E c \in Callers : Steps(c)
    \/ \E c \in Callers : Return(c)
    \/ \E c \in Callers : Crash(c)
    \/ EditPipeline

SpecEdit == Init /\ [][NextEdit]_vars

(***************************************************************************)
(* SpecReset: concurrent callers of run_pipeline on one pipeline whose     *)
(* state the user resets with cronclaw reset.  The reset is issued while   *)
(* no caller is between the start of its tick and its claim, so that the   *)
(* tick that starts next is the first one to look at the state.            *)
(***************************************************************************)
ResetPipe == "p1"

\* positions of acquire_ticket
Acquiring == {"lock", "load_state", "create_state", "select"}

\* cmd_reset: state.json is removed if it exists
Reset ==
    /\ \A c \in Callers : pc[c] \notin Acquiring
    /\ IF IsSome(state_json[ResetPipe])
       THEN /\ state_json' = Set(state_json, ResetPipe, NoneOpt)
            /\ after_reset' = Set(after_reset, ResetPipe, "waiting")
       ELSE UNCHANGED <<state_json, after_reset>>
    /\ UNCHANGED <<pipeline_yaml, workspace_dir, workspace, state_lock, pc, locals, hist, io, seqv, env,
                   cli>>

\* a tick starts; the first one since a reset is remembered
ResetCall(c) ==
    /\ LoadPipeline(c, ResetPipe)
    /\ after_reset' = Set(after_reset, ResetPipe,
           CASE after_reset[ResetPipe] = "waiting" -> c
             [] after_reset[ResetPipe] = c -> "no"
             [] OTHER -> after_reset[ResetPipe])
    /\ UNCHANGED <<seqv, env, cli>>

NextReset ==
    \/ \E c \in Callers : ResetCall(c)
    \/ \E c \in Callers : Steps(c)
    \/ \E c \in Callers : Return(c)
    \/ \E c \in Callers : Crash(c)
    \/ Reset

InitReset ==
    /\ Init
    /\ pipeline_yaml["p2"] = Some(Def0)

SpecReset == InitReset /\ [][NextReset]_vars

(***************************************************************************)
(* SpecStream: one caller ticks a pipeline whose steps declare where their *)
(* stdout and stderr go, and whose bash script prints on either            *)
(***************************************************************************)
StreamPipe  == "p1"
StreamPaths == {"greeting.txt", "warnings.log"}

OutputTargets == {Terminal, Void, File("greeting.txt")}
ErrorTargets  == {Terminal, Void, File("warnings.log")}

Scripts == {QuietScript, <<"echo out">>, <<"echo err >&2">>,
            <<"echo out", "; ", "echo err >&2">>}

DefStream(out, er, sh) ==
    Pipeline("workspace",
      << FullStep("a", "bash", NoneOpt, NoneOpt, out, er, Some(sh), NoneOpt, << >>),
         FullStep("b", "agent", Some(MainAgent), Some(PlainPrompt), out, er, NoneOpt,
                  NoneOpt, << >>) >>)

InitStream ==
    /\ \E out \in OutputTargets, er \in ErrorTargets, sh \in Scripts :
          pipeline_yaml = [p \in Pipes |-> IF p = StreamPipe
                                          THEN Some(DefStream(out, er, sh))
                                          ELSE Some(Def0)]
    /\ home = TRUE
    /\ openclaw_bin = NoneOpt
    /\ state_json = [p \in Pipes |-> NoneOpt]
    /\ workspace = [p \in Pipes |-> [f \in StreamPaths |-> 0]]
    /\ state_lock = [p \in Pipes |-> Free]
    /\ InitLocals

StreamCall ==
    /\ LoadPipeline(SeqCaller, StreamPipe)
    /\ UNCHANGED <<seqv, env, marks, cli>>

NextStream ==
    \/ StreamCall
    \/ Steps(SeqCaller)
    \/ Return(SeqCaller)

SpecStream == InitStream /\ [][NextStream]_vars

(***************************************************************************)
(* SpecAgent: one caller ticks a pipeline of a bash step and an agent step *)
(* whose script and prompt may carry file-inclusion macros, with or        *)
(* without an OPENCLAW_BIN that names no program                           *)
(***************************************************************************)
AgentPipe == "p1"

AgentScripts == {QuietScript, <<"cat ", "{{file:f1}}">>}

AgentPrompts == {PlainPrompt,
                 <<"Analyse: ", "{{file:f1}}">>,
                 <<"{{ file:f1 }}", " and ", "{{file:nowhere}}">>,
                 <<"{{file:t1}}", " then ", "{{  file:  f1  }}", " then ", "{{file:t1}}">>}

DefAgent(sh, pr) ==
    Pipeline("workspace",
      << FullStep("a", "bash", NoneOpt, NoneOpt, Terminal, Terminal, Some(sh), NoneOpt,
                  << Output("out", "f1", "t1") >>),
         FullStep("b", "agent", Some(MainAgent), Some(pr), Terminal, Terminal, NoneOpt,
                  Some(StepTimeout), << >>) >>)

\* the programs the operating system finds
Installed == {"sh", "openclaw"}

InitAgent ==
    /\ \E sh \in AgentScripts, pr \in AgentPrompts :
          pipeline_yaml = [p \in Pipes |-> IF p = AgentPipe THEN Some(DefAgent(sh, pr))
                                          ELSE Some(Def0)]
    /\ home = TRUE
    /\ openclaw_bin \in {NoneOpt, Some("/nonexistent/openclaw")}
    /\ state_json = [p \in Pipes |-> NoneOpt]
    /\ workspace \in [Pipes -> [Paths -> {0}]]
    /\ state_lock = [p \in Pipes |-> Free]
    /\ InitLocals

AgentCall ==
    /\ LoadPipeline(SeqCaller, AgentPipe)
    /\ UNCHANGED <<seqv, env, marks, cli>>

NextAgent ==
    \/ AgentCall
    \/ Steps(SeqCaller)
    \/ Return(SeqCaller)

SpecAgent == InitAgent /\ [][NextAgent]_vars /\ WF_vars(NextAgent)

(***************************************************************************)
(* SpecBuild: openclaw::build_command applied to the agent, the prompt and *)
(* the timeout of an agent step and to the workspace of its pipeline,      *)
(* under any value of OPENCLAW_BIN                                         *)
(***************************************************************************)
BuildPipe == "p1"

BuildAgents     == {MainAgent, "pro-worker"}
BuildPrompts    == {PlainPrompt, << >>, <<"line one", "\n", "line two">>,
                    <<"--to ", "other", " \"quoted\" $HOME ", "{{file:f1}}">>}
BuildWorkspaces == {"workspace", "/my/workspace"}
BuildTimeouts   == {0, 60, 3600}
BuildBins       == {NoneOpt, Some("/usr/local/bin/openclaw"), Some(""),
                    Some("/opt/\\xff/openclaw")}

DefBuild(ag, pr, w, to) ==
    Pipeline(w, << FullStep("a", "agent", Some(ag), Some(pr), Terminal, Terminal, NoneOpt,
                            Some(to), << >>) >>)

InitBuild ==
    /\ \E ag \in BuildAgents, pr \in BuildPrompts, w \in BuildWorkspaces,
          to \in BuildTimeouts :
          pipeline_yaml = [p \in Pipes |-> IF p = BuildPipe
                                          THEN Some(DefBuild(ag, pr, w, to))
                                          ELSE Some(Def0)]
    /\ openclaw_bin \in BuildBins
    /\ home = TRUE
    /\ InitDisk
    /\ InitLocals

\* the agent step whose fields are the arguments of the call
BuildStep == Unwrap(pipeline_yaml[BuildPipe]).steps[1]

\* a call of build_command; the Command it returns is kept in command
BuildCommand(c) ==
    /\ pc[c] = "idle"
    /\ command' = Set(command, c,
           Some(build_command(Unwrap(BuildStep.agent), Unwrap(BuildStep.prompt),
                              Unwrap(pipeline_yaml[BuildPipe]).workspace,
                              effective_timeout(BuildStep))))
    /\ pc' = Set(pc, c, "done")
    /\ UNCHANGED <<disk, state_lock, locals, hist, printed, resolved, pipe, seqv, env, marks,
                   cli>>

NextBuild == BuildCommand(SeqCaller)

SpecBuild == InitBuild /\ [][NextBuild]_vars

(***************************************************************************)
(* SpecResolve: resolve_templates applied, by the tick that claims it, to  *)
(* the prompt of an agent step; the prompt is any text of at most          *)
(* MaxPieces pieces and the files it names are missing, plain, or hold     *)
(* macro text themselves                                                   *)
(***************************************************************************)
ResolvePipe == "p1"

Pieces == {"plain", "{{ var }}", "{{file:f1}}", "{{ file:f1 }}", "{{ file:t1 }}"}

\* the texts of at most n pieces
TextsUpTo(n) == UNION {[1..k -> Pieces] : k \in 0..n}

\* contents of a file: none, plain, or a text that quotes a macro
FileContents == {0, MaxContent} \cup {MaxContent + k : k \in 1..Len(QuotedMacros)}

DefResolve(pr) ==
    Pipeline("workspace",
      << FullStep("a", "agent", Some(MainAgent), Some(pr), Terminal, Terminal, NoneOpt,
                  NoneOpt, << >>) >>)

InitResolve ==
    /\ \E pr \in TextsUpTo(MaxPieces) :
          pipeline_yaml = [p \in Pipes |-> IF p = ResolvePipe THEN Some(DefResolve(pr))
                                          ELSE Some(Def0)]
    /\ home = TRUE
    /\ openclaw_bin = NoneOpt
    /\ state_json = [p \in Pipes |-> NoneOpt]
    /\ \E ws \in [Paths -> FileContents] : workspace = [p \in Pipes |-> ws]
    /\ state_lock = [p \in Pipes |-> Free]
    /\ InitLocals

ResolveCall ==
    /\ state_json[ResolvePipe] = NoneOpt
    /\ LoadPipeline(SeqCaller, ResolvePipe)
    /\ UNCHANGED <<seqv, env, marks, cli>>

\* the steps of run_pipeline on a pipeline whose only step is an agent step
ResolveSteps(c) ==
    \/ LockState(c)
    \/ LoadState(c)
    \/ CreateState(c)
    \/ SelectStep(c)
    \/ ExecuteStep(c)
    \/ SaveFailed(c)

NextResolve ==
    \/ ResolveCall
    \/ ResolveSteps(SeqCaller)

SpecResolve == InitResolve /\ [][NextResolve]_vars

(***************************************************************************)
(* SpecParse: one caller ticks a pipeline whose pipeline.yaml is any       *)
(* document of at most MaxSteps steps, each of any type and with or        *)
(* without its bash, agent and prompt fields                               *)
(***************************************************************************)
ParsePipe == "p1"

StepName(k) == <<"a", "b", "c">>[k]

\* the steps a document can have at position k
StepsAt(k) ==
    {FullStep(StepName(k), ty, ag, pr, Terminal, Terminal, sh, NoneOpt, << >>) :
        ty \in StepTypes \cup {"python"},
        ag \in {NoneOpt, Some(MainAgent)},
        pr \in {NoneOpt, Some(PlainPrompt)},
        sh \in {NoneOpt, Some(QuietScript)}}

\* the step lists of exactly k steps
RECURSIVE StepListsOf(_)
StepListsOf(k) ==
    IF k = 0 THEN {<< >>}
    ELSE {Append(ss, st) : ss \in StepListsOf(k - 1), st \in StepsAt(k)}

StepLists(n) == UNION {StepListsOf(k) : k \in 0..n}

Documents(n) ==
    {Document(v, "workspace", ss) : v \in {NoneOpt, Some(1)}, ss \in StepLists(n)}

InitParse ==
    /\ \E doc \in Documents(MaxSteps) :
          pipeline_yaml = [p \in Pipes |-> IF p = ParsePipe THEN Some(doc) ELSE NoneOpt]
    /\ home = TRUE
    /\ openclaw_bin = NoneOpt
    /\ InitDisk
    /\ InitLocals

ParseCall ==
    /\ \E p \in Pipes : LoadPipeline(SeqCaller, p)
    /\ UNCHANGED <<seqv, env, marks, cli>>

NextParse ==
    \/ ParseCall
    \/ Steps(SeqCaller)
    \/ Return(SeqCaller)

SpecParse == InitParse /\ [][NextParse]_vars

(***************************************************************************)
(* SpecRun: main.rs, overlapping invocations of cronclaw init and          *)
(* cronclaw run                                                            *)
(***************************************************************************)
InitRun ==
    /\ \/ /\ home = TRUE
          /\ pipeline_yaml \in [Pipes -> {Some(d) : d \in Defs} \cup {NoneOpt}]
       \/ /\ home = FALSE
          /\ pipeline_yaml = [p \in Pipes |-> NoneOpt]
    /\ InitDisk
    /\ openclaw_bin = NoneOpt
    /\ InitLocals

\* the invocation ends with status n
Exit(c, n) ==
    /\ cmd' = Set(cmd, c, "exited")
    /\ exit_code' = Set(exit_code, c, n)

\* cmd_init
CmdInit(c) ==
    /\ cmd[c] = "none"
    /\ cmd' = Set(cmd, c, "init_exited")
    /\ IF home
       THEN /\ exit_code' = Set(exit_code, c, 1)
            /\ UNCHANGED home
       ELSE /\ home' = TRUE
            /\ exit_code' = Set(exit_code, c, 0)
    /\ UNCHANGED <<disk, state_lock, pc, locals, hist, io, seqv, env, marks, lock, entries, errors,
                   attempted>>

\* faulty variant: the lock is taken whoever holds it
try_lock_always(c) == TRUE

\* lock_file.try_lock_exclusive() succeeds
try_lock_exclusive(c) == lock = Free

\* cmd_run up to the read_dir: the check of the home directory, the outer lock
CmdRun(c) ==
    /\ cmd[c] = "none"
    /\ IF ~home
       THEN /\ Exit(c, 1)
            /\ UNCHANGED <<lock, entries>>
       ELSE IF ~try_lock_exclusive(c)
       THEN /\ Exit(c, 0)
            /\ UNCHANGED <<lock, entries>>
       ELSE /\ lock' = c
            /\ cmd' = Set(cmd, c, "listing")
            /\ entries' = Set(entries, c, Pipes)
            /\ UNCHANGED exit_code
    /\ UNCHANGED <<disk, state_lock, pc, locals, hist, io, seqv, env, marks, home, errors, attempted>>

\* cmd_run, the loop: an entry without pipeline.yaml is passed over
CmdSkip(c) ==
    /\ cmd[c] = "listing" /\ pc[c] = "idle"
    /\ \E p \in entries[c] :
         /\ ~IsSome(pipeline_yaml[p])
         /\ entries' = Set(entries, c, entries[c] \ {p})
    /\ UNCHANGED <<disk, state_lock, pc, locals, hist, io, seqv, env, marks, lock, home, cmd, errors, attempted,
                   exit_code>>

\* cmd_run, the loop: runner::run_pipeline on the next entry
CmdCall(c) ==
    /\ cmd[c] = "listing"
    /\ \E p \in entries[c] :
         /\ IsSome(pipeline_yaml[p])
         /\ entries' = Set(entries, c, entries[c] \ {p})
         /\ LoadPipeline(c, p)
    /\ UNCHANGED <<seqv, env, marks, lock, home, cmd, errors, attempted, exit_code>>

\* faulty variant: the loop is left at the first error
CmdReturnFailFast(c) ==
    /\ pc[c] = "done"
    /\ errors' = Set(errors, c, IF result[c].ok THEN errors[c]
                                ELSE Append(errors[c], result[c].err))
    /\ attempted' = Set(attempted, c,
                        Append(attempted[c], [dir |-> pipeline_dir[c], res |-> result[c]]))
    /\ entries' = Set(entries, c, IF result[c].ok THEN entries[c] ELSE {})
    /\ ClearLocals(c)
    /\ UNCHANGED <<disk, state_lock, claims, seqv, env, marks, lock, home, cmd, exit_code>>

\* cmd_run, the loop: an error of run_pipeline is pushed on errors
CmdReturn(c) ==
    /\ pc[c] = "done"
    /\ errors' = Set(errors, c, IF result[c].ok THEN errors[c]
                                ELSE Append(errors[c], result[c].err))
    /\ attempted' = Set(attempted, c,
                        Append(attempted[c], [dir |-> pipeline_dir[c], res |-> result[c]]))
    /\ ClearLocals(c)
    /\ UNCHANGED <<disk, state_lock, claims, seqv, env, marks, lock, home, cmd, entries, exit_code>>

\* faulty variant: the errors are printed and the process exits with status 0
CmdExitZero(c) ==
    /\ cmd[c] = "listing" /\ pc[c] = "idle" /\ entries[c] = {}
    /\ Exit(c, 0)
    /\ lock' = Free
    /\ UNCHANGED <<disk, state_lock, pc, locals, hist, io, seqv, env, marks, home, entries, errors,
                   attempted>>

\* cmd_run after the loop: the errors are printed, the process exits and the
\* outer lock is dropped
CmdExit(c) ==
    /\ cmd[c] = "listing" /\ pc[c] = "idle" /\ entries[c] = {}
    /\ Exit(c, IF errors[c] # << >> THEN 1 ELSE 0)
    /\ lock' = Free
    /\ UNCHANGED <<disk, state_lock, pc, locals, hist, io, seqv, env, marks, home, entries, errors,
                   attempted>>

\* the exit status has been collected; the caller may start another invocation
CmdReap(c) ==
    /\ cmd[c] \in {"exited", "init_exited"}
    /\ cmd' = Set(cmd, c, "none")
    /\ exit_code' = Set(exit_code, c, -1)
    /\ errors' = Set(errors, c, << >>)
    /\ attempted' = Set(attempted, c, << >>)
    /\ UNCHANGED <<disk, state_lock, pc, locals, hist, io, seqv, env, marks, lock, home, entries>>

\* the invocation dies while it holds the outer lock; the operating system
\* releases its locks
CmdCrash(c) ==
    /\ cmd[c] = "listing"
    /\ ClearLocals(c)
    /\ state_lock' = Released(c)
    /\ lock' = Free
    /\ cmd' = Set(cmd, c, "none")
    /\ entries' = Set(entries, c, {})
    /\ errors' = Set(errors, c, << >>)
    /\ attempted' = Set(attempted, c, << >>)
    /\ UNCHANGED <<disk, claims, seqv, env, marks, home, exit_code>>

NextRun ==
    \/ \E c \in Callers : CmdInit(c)
    \/ \E c \in Callers : CmdRun(c)
    \/ \E c \in Callers : CmdSkip(c)
    \/ \E c \in Callers : CmdCall(c)
    \/ \E c \in Callers : Steps(c)
    \/ \E c \in Callers : CmdReturn(c)
    \/ \E c \in Callers : CmdExit(c)
    \/ \E c \in Callers : CmdReap(c)
    \/ \E c \in Callers : CmdCrash(c)

SpecRun == InitRun /\ [][NextRun]_vars

(***************************************************************************)
(* SpecLive: one caller invokes cronclaw run again and again and never     *)
(* dies; every process starts, exits zero before its timeout and has       *)
(* written every tmp file its step declares                                *)
(***************************************************************************)
LiveExecute(c) ==
    /\ ExecuteStep(c)
    /\ TicketStep(c).step_type = "bash" => pc'[c] = "child"

LiveChildExit(c) ==
    /\ pc[c] = "child"
    /\ ChildExit(c)
    /\ exec'[c] = Ok
    /\ \A f \in TmpPaths(TicketStep(c)) : workspace'[pipeline_dir[c]][f] # 0

LiveSteps(c) ==
    \/ LockState(c)
    \/ LoadState(c)
    \/ CreateState(c)
    \/ SelectStep(c)
    \/ LiveExecute(c)
    \/ LiveChildExit(c)
    \/ Promote(c)
    \/ SaveCompleted(c)
    \/ SaveFailed(c)

InitLive ==
    /\ pipeline_yaml \in [Pipes -> {Some(d) : d \in Defs} \cup {NoneOpt}]
    /\ home = TRUE
    /\ openclaw_bin = NoneOpt
    /\ InitDisk
    /\ InitLocals

NextLive ==
    \/ CmdRun(SeqCaller)
    \/ CmdSkip(SeqCaller)
    \/ CmdCall(SeqCaller)
    \/ LiveSteps(SeqCaller)
    \/ CmdReturn(SeqCaller)
    \/ CmdExit(SeqCaller)
    \/ CmdReap(SeqCaller)

SpecLive == InitLive /\ [][NextLive]_vars /\ WF_vars(NextLive)

(***************************************************************************)
(* SpecOut: one caller ticks one pipeline whose first step declares any    *)
(* list of outputs over the paths of OutPaths; the caller may die          *)
(***************************************************************************)
OutPipe  == "p1"
OutPaths == {"x", "y", "z"}
OutName(k) == <<"o1", "o2", "o3", "o4">>[k]

\* the lists of at most MaxOutputs outputs over the paths P, named by their
\* position
OutListsOver(P) ==
    UNION {{[k \in 1..n |-> Output(OutName(k), f[k][1], f[k][2])] :
              f \in [1..n -> P \X P]} : n \in 0..MaxOutputs}

OutLists == OutListsOver(OutPaths)

DefOut(outs) ==
    Pipeline("workspace",
       << Step("a", "bash", NoneOpt, outs), Step("b", "bash", NoneOpt, << >>) >>)

InitOut ==
    /\ \E outs \in OutLists :
         pipeline_yaml = [p \in Pipes |-> Some(DefOut(outs))]
    /\ home = TRUE
    /\ openclaw_bin = NoneOpt
    /\ state_json = [p \in Pipes |-> NoneOpt]
    /\ workspace \in [Pipes -> [OutPaths -> {0, MaxContent}]]
    /\ \A p \in Pipes \ {OutPipe} : \A f \in OutPaths : workspace[p][f] = 0
    /\ state_lock = [p \in Pipes |-> Free]
    /\ InitLocals

OutCall ==
    /\ LoadPipeline(SeqCaller, OutPipe)
    /\ UNCHANGED <<seqv, env, marks, cli>>

NextOut ==
    \/ OutCall
    \/ Steps(SeqCaller)
    \/ Return(SeqCaller)
    \/ Crash(SeqCaller)

SpecOut == InitOut /\ [][NextOut]_vars

(***************************************************************************)
(* SpecPromote: promote_outputs called on its own, as the tests call it,   *)
(* on any step and any workspace over the paths of PromotePaths            *)
(***************************************************************************)
PromotePaths == OutPaths \cup {"w"}

InitPromote ==
    /\ \E outs \in OutListsOver(PromotePaths) :
         pipeline_yaml = [p \in Pipes |-> Some(DefOut(outs))]
    /\ home = TRUE
    /\ openclaw_bin = NoneOpt
    /\ state_json = [p \in Pipes |-> NoneOpt]
    /\ workspace \in [Pipes -> [PromotePaths -> 0..MaxContent]]
    /\ \A p \in Pipes \ {OutPipe} : \A f \in PromotePaths : workspace[p][f] = 0
    /\ state_lock = [p \in Pipes |-> Free]
    /\ InitLocals

\* promote_outputs(&step, &workspace) on the first step of the definition
PromoteCall ==
    /\ pc[SeqCaller] = "idle"
    /\ LET pl == Unwrap(pipeline_yaml[OutPipe])
           r  == promote_outputs(pl.steps[1].outputs, workspace[OutPipe], 1)
       IN /\ pipeline' = Set(pipeline, SeqCaller, pl)
          /\ ticket' = Set(ticket, SeqCaller,
                           [step_index |-> 1, step_id |-> pl.steps[1].id,
                            timeout_secs |-> 0])
          /\ workspace' = [workspace EXCEPT ![OutPipe] = r.ws]
          /\ result' = Set(result, SeqCaller, r.res)
    /\ pc' = Set(pc, SeqCaller, "done")
    /\ UNCHANGED <<pipeline_yaml, workspace_dir, state_json, state_lock, pipeline_dir, state, exec,
                   hist, io, seqv, env, marks, cli>>

NextPromote == PromoteCall

SpecPromote == InitPromote /\ [][NextPromote]_vars

TypeOK ==
    /\ \A p \in Pipes : state_lock[p] \in Callers \cup {Free}
    /\ lock \in Callers \cup {Free}
    /\ \A c \in Callers : pc[c] \in {"idle", "lock", "load_state", "create_state", "select",
                                     "execute", "child", "child_expired", "promote",
                                     "save_completed", "save_failed", "done"}

(***************************************************************************)
(* Vocabulary of the properties                                            *)
(***************************************************************************)
WithStatus(s, st) == {i \in DOMAIN s : s[i] = st}

\* index of the first step, in definition order, that is not Completed; 0 if none
FirstOpen(pl, s) ==
    LET N == {k \in 1..Len(pl.steps) : s[pl.steps[k].id] # "completed"} IN
    IF N = {} THEN 0 ELSE CHOOSE k \in N : \A j \in N : k <= j

\* the first step that is not Completed has status st
BlockedBy(pl, s, st) ==
    LET k == FirstOpen(pl, s) IN k # 0 /\ s[pl.steps[k].id] = st

\* positions at which a caller holds a ticket
Holding == {"execute", "child", "child_expired", "promote", "save_completed",
            "save_failed"}

\* caller c is executing step i of pipeline p
Owns(c, p, i) == pc[c] \in Holding /\ pipeline_dir[c] = p /\ ticket[c].step_id = i

\* this step is the return of c's call of run_pipeline
Returns(c) == pc[c] # "done" /\ pc'[c] = "done"

\* this step is taken by c inside run_pipeline (not its death)
StepOf(c) == pc'[c] # pc[c] /\ pc[c] \notin {"idle", "done"} /\ pc'[c] # "idle"

\* the state c's call decided on
Seen(c) == Unwrap(seen[c])

(***************************************************************************)
(* C1                                                                      *)
(***************************************************************************)
C1_Pre(s) ==
    /\ WithStatus(s, "running") = {}
    /\ WithStatus(s, "failed") = {}
    /\ WithStatus(s, "pending") # {}

\* at the return of c's call, the persisted state is the state the call decided
\* on except for its first Pending step, whose status is one of allowed
C1_Post(c, allowed) ==
    LET p  == pipeline_dir[c]
        id == pipeline[c].steps[FirstOpen(pipeline[c], Seen(c))].id
    IN /\ IsSome(state_json'[p])
       /\ DOMAIN Unwrap(state_json'[p]) = DOMAIN Seen(c)
       /\ Unwrap(state_json'[p])[id] \in allowed
       /\ \A j \in DOMAIN Seen(c) \ {id} : Unwrap(state_json'[p])[j] = Seen(c)[j]

\* C1 as stated: a call of run_pipeline on a state with no Running and no Failed
\* step and some Pending step changes exactly the first Pending step, which
\* ends the call Completed or Failed
C1_OneStepPerTick ==
    [][\A c \in Callers :
         (Returns(c) /\ IsSome(seen[c]) /\ C1_Pre(Seen(c)))
            => C1_Post(c, {"completed", "failed"})]_vars

\* C1 amended: ... which ends the call Completed or Failed, or Running when its
\* process exited zero and the promotion of its outputs failed
C1_OneStepPerTickOrStuck ==
    [][\A c \in Callers :
         (Returns(c) /\ IsSome(seen[c]) /\ C1_Pre(Seen(c)))
            => IF exec[c].ok /\ ~result'[c].ok
               THEN C1_Post(c, {"running"})
               ELSE C1_Post(c, {"completed", "failed"})]_vars

C1_Witness ==
    \E c \in Callers :
        /\ pc[c] = "done" /\ IsSome(seen[c]) /\ C1_Pre(Seen(c))
        /\ result[c].ok
        /\ Unwrap(state_json[pipeline_dir[c]])[ticket[c].step_id] = "completed"
        /\ WithStatus(Unwrap(state_json[pipeline_dir[c]]), "pending") # {}

(***************************************************************************)
(* C2                                                                      *)
(***************************************************************************)
\* C2: with no persisted state at the start and every call so far returning Ok,
\* after k sequential calls (1 <= k <= n) on an n-step pipeline exactly its
\* first k steps are Completed and the later ones are Pending
C2_KStepsAfterKTicks ==
    \A p \in Pipes :
        LET pl == Unwrap(pipeline_yaml[p])
            k  == ticks[p]
        IN (/\ pc[SeqCaller] = "idle" \/ pipeline_dir[SeqCaller] # p
            /\ okrun[p]
            /\ 1 <= k /\ k <= Len(pl.steps))
           => /\ IsSome(state_json[p])
              /\ \A j \in 1..Len(pl.steps) :
                    Unwrap(state_json[p])[pl.steps[j].id] =
                        IF j <= k THEN "completed" ELSE "pending"

C2_Witness ==
    \E p \in Pipes :
        /\ pc[SeqCaller] = "idle" /\ okrun[p]
        /\ ticks[p] = 2 /\ Len(Unwrap(pipeline_yaml[p]).steps) = 3

(***************************************************************************)
(* C3                                                                      *)
(***************************************************************************)
Allowed(a, b) ==
    \/ a = b
    \/ a = "pending" /\ b = "running"
    \/ a = "running" /\ b \in {"completed", "failed"}

\* C3: while the state file is not deleted, every change of a persisted status
\* is Pending->Running, Running->Completed or Running->Failed
C3_Transitions ==
    [][\A p \in Pipes :
         IsSome(state_json[p])
            => /\ IsSome(state_json'[p])
               /\ DOMAIN Unwrap(state_json'[p]) = DOMAIN Unwrap(state_json[p])
               /\ \A i \in DOMAIN Unwrap(state_json[p]) :
                     Allowed(Unwrap(state_json[p])[i], Unwrap(state_json'[p])[i])]_vars

C3_Witness ==
    \E p \in Pipes :
        /\ IsSome(state_json[p])
        /\ WithStatus(Unwrap(state_json[p]), "completed") # {}
        /\ WithStatus(Unwrap(state_json[p]), "failed") # {}
        /\ WithStatus(Unwrap(state_json[p]), "pending") # {}

(***************************************************************************)
(* C4                                                                      *)
(***************************************************************************)
\* C4: a call that finds the first step that is not Completed recorded Running
\* returns Ok, changes no persisted status and spawns nothing; and a step that
\* is recorded Running while no caller executes it stays as it is
C4_RunningBlocks ==
    [][/\ \A c \in Callers :
            (StepOf(c) /\ IsSome(seen[c]) /\ BlockedBy(pipeline[c], Seen(c), "running"))
               => /\ Returns(c) /\ result'[c] = Ok
                  /\ state_json' = state_json
                  /\ workspace' = workspace
                  /\ ~spawned'[c] /\ ~wrote'[c]
       /\ \A p \in Pipes :
            (/\ IsSome(state_json[p])
             /\ \E i \in DOMAIN Unwrap(state_json[p]) :
                   /\ Unwrap(state_json[p])[i] = "running"
                   /\ \A c \in Callers : ~Owns(c, p, i))
               => state_json'[p] = state_json[p]]_vars

C4_Witness ==
    \E c \in Callers :
        /\ pc[c] = "done" /\ IsSome(seen[c])
        /\ BlockedBy(pipeline[c], Seen(c), "running")
        /\ result[c] = Ok
        /\ \A d \in Callers : pc[d] \notin Holding
        /\ state_json[pipeline_dir[c]] = seen[c]

(***************************************************************************)
(* C5                                                                      *)
(***************************************************************************)
\* C5: once a step is recorded Failed the persisted statuses of its pipeline
\* never change, and every call that finds it returns Ok and spawns nothing
C5_FailedBlocks ==
    [][/\ \A p \in Pipes :
            (IsSome(state_json[p]) /\ WithStatus(Unwrap(state_json[p]), "failed") # {})
               => state_json'[p] = state_json[p]
       /\ \A c \in Callers :
            (StepOf(c) /\ IsSome(seen[c]) /\ WithStatus(Seen(c), "failed") # {})
               => /\ Returns(c) /\ result'[c] = Ok
                  /\ workspace' = workspace
                  /\ ~spawned'[c] /\ ~wrote'[c]]_vars

C5_Witness ==
    \E c \in Callers :
        /\ pc[c] = "done" /\ IsSome(seen[c])
        /\ BlockedBy(pipeline[c], Seen(c), "failed")
        /\ WithStatus(Seen(c), "pending") # {}
        /\ result[c] = Ok

(***************************************************************************)
(* C6                                                                      *)
(***************************************************************************)
AllCompleted(s) == \A i \in DOMAIN s : s[i] = "completed"

\* C6: a call that finds every step Completed (or a pipeline without steps)
\* returns Ok, changes no persisted status and spawns nothing
C6_CompletedNoOp ==
    [][\A c \in Callers :
         (StepOf(c) /\ IsSome(seen[c]) /\ AllCompleted(Seen(c)))
            => /\ Returns(c) /\ result'[c] = Ok
               /\ state_json' = state_json
               /\ state_json'[pipeline_dir[c]] = seen[c]
               /\ workspace' = workspace
               /\ ~spawned'[c] /\ ~wrote'[c]]_vars

C6_Witness ==
    /\ \E c \in Callers :
          /\ pc[c] = "done" /\ IsSome(seen[c]) /\ AllCompleted(Seen(c))
          /\ DOMAIN Seen(c) # {} /\ result[c] = Ok
    /\ \E c \in Callers :
          /\ pc[c] = "done" /\ IsSome(seen[c]) /\ DOMAIN Seen(c) = {}
          /\ result[c] = Ok

(***************************************************************************)
(* C7                                                                      *)
(***************************************************************************)
\* C7: a call that loads a state whose ids are not the ids of the definition
\* returns an error containing "mismatch" and "reset", changes no persisted
\* status, claims no step and spawns nothing, whatever the statuses are
C7_MismatchIsError ==
    [][\A c \in Callers :
         (StepOf(c) /\ IsSome(seen[c]) /\ StepIds(pipeline[c]) # DOMAIN Seen(c))
            => /\ Returns(c)
               /\ ~result'[c].ok
               /\ Contains(result'[c].err, "mismatch")
               /\ Contains(result'[c].err, "reset")
               /\ state_json' = state_json
               /\ workspace' = workspace
               /\ claims' = claims /\ ticket'[c] = NoTicket
               /\ ~spawned'[c] /\ ~wrote'[c]]_vars

C7_Witness ==
    \E c \in Callers :
        /\ pc[c] = "done" /\ IsSome(seen[c])
        /\ StepIds(pipeline[c]) # DOMAIN Seen(c)
        /\ DOMAIN Seen(c) # {} /\ AllCompleted(Seen(c))
        /\ StepIds(pipeline[c]) \subseteq DOMAIN Seen(c)
        /\ Contains(result[c].err, "mismatch")

(***************************************************************************)
(* C8                                                                      *)
(***************************************************************************)
Processing(c) == cmd[c] = "listing"

\* C8: at most one invocation of run holds the outer lock and processes
\* pipelines; an invocation that finds the lock held exits at once with status
\* 0, having processed no pipeline and changed nothing
C8_OuterLock ==
    [][/\ \A c, d \in Callers : (Processing(c)' /\ Processing(d)') => c = d
       /\ \A c \in Callers : Processing(c)' => lock' = c
       /\ \A c \in Callers : pc'[c] # "idle" => Processing(c)'
       /\ \A c \in Callers :
            (cmd[c] = "none" /\ cmd'[c] \in {"listing", "exited"} /\ home /\ lock # Free)
               => /\ cmd'[c] = "exited" /\ exit_code'[c] = 0
                  /\ errors'[c] = << >>
                  /\ UNCHANGED <<disk, state_lock, lock, pc, locals, hist>>]_vars

C8_Witness ==
    \E c, d \in Callers :
        /\ c # d /\ lock = c /\ Processing(c) /\ pc[c] = "lock"
        /\ cmd[d] = "exited" /\ exit_code[d] = 0
        /\ \A p \in Pipes : IsSome(pipeline_yaml[p]) /\ ~IsSome(state_json[p])

(***************************************************************************)
(* C9                                                                      *)
(***************************************************************************)
\* C9: without the outer lock and without reset, every step is claimed at most
\* once, and at most one caller at a time holds a ticket on a pipeline
C9_ClaimedOnce ==
    /\ \A p \in Pipes, i \in Ids : claims[p][i] <= 1
    /\ \A p \in Pipes, c, d \in Callers :
          (/\ pc[c] \in Holding /\ pipeline_dir[c] = p
           /\ pc[d] \in Holding /\ pipeline_dir[d] = p) => c = d

C9_Witness ==
    \E p \in Pipes, c, d \in Callers :
        /\ c # d
        /\ pc[c] = "child" /\ pipeline_dir[c] = p /\ claims[p][ticket[c].step_id] = 1
        /\ pc[d] = "done" /\ pipeline_dir[d] = p /\ result[d] = Ok
        /\ IsSome(seen[d]) /\ Seen(d)[ticket[c].step_id] = "running"
        /\ \E i \in Ids : i # ticket[c].step_id /\ claims[p][i] = 1

(***************************************************************************)
(* C10                                                                     *)
(***************************************************************************)
\* the caller whose step changes the state file of p
Writes(c, p) == state_json'[p] # state_json[p] /\ pc'[c] # pc[c] /\ pipeline_dir[c] = p

\* C10 as stated: every write of a state file is made by a caller that holds
\* the state lock of that pipeline
C10_WritesUnderLock ==
    [][\A p \in Pipes :
         state_json'[p] # state_json[p]
            => \E c \in Callers : Writes(c, p) /\ state_lock[p] = c]_vars

\* C10 amended: the creation of the all-Pending state and the claim are written
\* by a caller that holds the state lock of the pipeline; the result after the
\* execution is written by the caller that claimed the step, after it has
\* released that lock
C10_ClaimUnderLockResultOutside ==
    [][\A p \in Pipes :
         state_json'[p] # state_json[p]
            => \E c \in Callers :
                  /\ Writes(c, p)
                  /\ \/ /\ pc[c] \in {"create_state", "select"}
                        /\ state_lock[p] = c
                     \/ /\ pc[c] \in {"save_completed", "save_failed"}
                        /\ state_lock[p] # c]_vars

C10_Witness ==
    \E c \in Callers :
        /\ pc[c] = "save_completed"
        /\ state_lock[pipeline_dir[c]] \in Callers \ {c}
        /\ Unwrap(state_json[pipeline_dir[c]])[ticket[c].step_id] = "running"

(***************************************************************************)
(* C11                                                                     *)
(***************************************************************************)
\* the persisted status of step i of pipeline p in the state files sj
Persisted(sj, p, i) ==
    IF IsSome(sj[p]) /\ i \in DOMAIN Unwrap(sj[p]) THEN Unwrap(sj[p])[i] ELSE "absent"

\* this step of the model persists Completed for step i of pipeline p
BecomesCompleted(p, i) ==
    Persisted(state_json, p, i) # "completed" /\ Persisted(state_json', p, i) = "completed"

\* the final paths of outs that no later output of the list
\* takes as its tmp path
KeptFinals(outs) ==
    {outs[k].path : k \in {k \in 1..Len(outs) :
                              \A j \in (k + 1)..Len(outs) : outs[j].tmp # outs[k].path}}

AllFinals(outs) == {outs[k].path : k \in 1..Len(outs)}

\* the caller that persists Completed for i is at the save after a process that
\* exited zero and a promotion that succeeded, and the final paths in finals
\* exist
C11_Body(all) ==
    \A p \in Pipes, i \in Ids :
        BecomesCompleted(p, i) =>
            \E c \in Callers :
                /\ pc[c] = "save_completed" /\ pipeline_dir[c] = p
                /\ ticket[c].step_id = i /\ spawned[c] /\ exec[c].ok
                /\ \A f \in (IF all THEN AllFinals(TicketStep(c).outputs)
                                     ELSE KeptFinals(TicketStep(c).outputs)) :
                       workspace'[p][f] # 0

\* C11 as stated: Completed is persisted for a step only after its process
\* exited zero and promote_outputs succeeded; when the status becomes Completed
\* every final path the step declares exists in the workspace
C11_CompletedHasFinals == [][C11_Body(TRUE)]_vars

\* C11 amended: ... every final path the step declares exists in the workspace,
\* except a final path that a later output of the same step declares as its tmp
\* path
C11_CompletedHasKeptFinals == [][C11_Body(FALSE)]_vars

C11_Witness ==
    \E c \in Callers :
        /\ pc[c] = "done" /\ result[c].ok /\ exec[c].ok
        /\ Persisted(state_json, pipeline_dir[c], ticket[c].step_id) = "completed"
        /\ Len(TicketStep(c).outputs) = 2
        /\ \A f \in AllFinals(TicketStep(c).outputs) : workspace[pipeline_dir[c]][f] # 0

(***************************************************************************)
(* C12                                                                     *)
(***************************************************************************)
\* what promote_outputs returns for the step c has claimed
Promotion(c) == promote_outputs(TicketStep(c).outputs, workspace[pipeline_dir[c]], 1)

\* pipeline p has a Running step that no caller is executing
Abandoned(p) ==
    \E i \in Ids : Persisted(state_json, p, i) = "running"
                    /\ \A c \in Callers : ~Owns(c, p, i)

\* C12: when the process of the claimed step exited zero and the promotion of
\* its outputs fails, run_pipeline returns the promotion error and writes no
\* status, so the step stays Running; from then on every call on the pipeline
\* returns Ok having written nothing, spawned nothing and moved no file
C12_PromotionFailureSticks ==
    [][/\ \A c \in Callers :
            (pc[c] = "promote" /\ StepOf(c) /\ ~Promotion(c).res.ok) =>
                /\ Returns(c) /\ exec[c].ok
                /\ result'[c] = Promotion(c).res
                /\ Contains(result'[c].err, "not found")
                /\ state_json' = state_json
                /\ Persisted(state_json', pipeline_dir[c], ticket[c].step_id) = "running"
       /\ \A p \in Pipes :
            Abandoned(p) =>
                /\ state_json'[p] = state_json[p]
                /\ workspace'[p] = workspace[p]
                /\ \A c \in Callers :
                      (Returns(c) /\ pipeline_dir[c] = p) =>
                          result'[c] = Ok /\ ~wrote[c] /\ ~spawned[c]]_vars

C12_Witness ==
    \E c \in Callers :
        /\ pc[c] = "done" /\ exec[c].ok /\ ~result[c].ok
        /\ Contains(result[c].err, "not found")
        /\ Persisted(state_json, pipeline_dir[c], ticket[c].step_id) = "running"
        /\ Abandoned(pipeline_dir[c])

(***************************************************************************)
(* C13                                                                     *)
(***************************************************************************)
\* msg ends with the pieces of tail
EndsWith(msg, tail) ==
    /\ Len(msg) >= Len(tail)
    /\ SubSeq(msg, Len(msg) - Len(tail) + 1, Len(msg)) = tail

\* the reasons for which the execution of a bash step fails
ExecutionFailures ==
    {<<"exited with code ", "1">>, <<"failed to spawn">>} \cup
    {<<"timed out after ", ToString(n), "s">> : n \in {DEFAULT_TIMEOUT, StepTimeout}}

\* C13: when the execution of the claimed step fails (non-zero exit, timeout,
\* or the process cannot be started), the next step of the call persists Failed
\* for the step, leaves every other persisted status as it is, and returns an
\* error that contains the pipeline name, the step id and the failure reason
C13_ExecutionFailurePersisted ==
    [][\A c \in Callers :
         /\ (StepOf(c) /\ pc[c] \in {"execute", "child", "child_expired"}
                /\ pc'[c] \notin {"child", "child_expired", "promote"}) =>
                pc'[c] = "save_failed" /\ ~exec'[c].ok
         /\ (StepOf(c) /\ pc[c] = "save_failed") =>
                LET p == pipeline_dir[c]
                    i == ticket[c].step_id
                IN /\ Returns(c)
                   /\ Persisted(state_json', p, i) = "failed"
                   /\ \A j \in Ids \ {i} :
                         Persisted(state_json', p, j) = Persisted(state_json, p, j)
                   /\ \A q \in Pipes \ {p} : state_json'[q] = state_json[q]
                   /\ ~result'[c].ok
                   /\ Contains(result'[c].err, p)
                   /\ Contains(result'[c].err, i)
                   /\ EndsWith(result'[c].err, exec[c].err)]_vars

C13_Witness ==
    \E c \in Callers :
        /\ pc[c] = "done" /\ exec[c].err \in ExecutionFailures
        /\ exec[c].err[1] = "timed out after "
        /\ Persisted(state_json, pipeline_dir[c], ticket[c].step_id) = "failed"
        /\ \E j \in Ids : Persisted(state_json, pipeline_dir[c], j) = "completed"
        /\ EndsWith(result[c].err, exec[c].err)

(***************************************************************************)
(* C14                                                                     *)
(***************************************************************************)
\* C14: a call whose execution failed never reaches the promotion; from the end
\* of the process to the return of the call the workspace does not change, so
\* the tmp files the process wrote stay at their tmp paths and no final path is
\* created or overwritten; outside the promotion the only files a call changes
\* are the tmp paths of the claimed step, written by its process
C14_NoPromotionAfterFailure ==
    [][\A c \in Callers :
         StepOf(c) =>
            /\ (pc[c] = "promote" => exec[c].ok)
            /\ (pc'[c] = "promote" => exec'[c].ok)
            /\ (pc[c] = "save_failed" =>
                    ~exec[c].ok /\ Returns(c) /\ workspace' = workspace)
            /\ (pc[c] # "promote" =>
                    \A f \in DOMAIN workspace[pipeline_dir[c]] :
                        workspace'[pipeline_dir[c]][f] # workspace[pipeline_dir[c]][f]
                           => /\ pc[c] \in {"child", "child_expired"}
                              /\ f \in TmpPaths(TicketStep(c)))]_vars

C14_Witness ==
    \E c \in Callers :
        /\ pc[c] = "done" /\ spawned[c] /\ ~exec[c].ok
        /\ Persisted(state_json, pipeline_dir[c], ticket[c].step_id) = "failed"
        /\ \E k \in 1..Len(TicketStep(c).outputs) :
              LET o == TicketStep(c).outputs[k] IN
              /\ o.tmp # o.path
              /\ workspace[pipeline_dir[c]][o.tmp] # 0
              /\ workspace[pipeline_dir[c]][o.path] = 0

(***************************************************************************)
(* C15                                                                     *)
(***************************************************************************)
\* the step handed to promote_outputs and the workspace it is called on
PromotedOutputs == Unwrap(pipeline_yaml[OutPipe]).steps[1].outputs
Before == workspace[OutPipe]
After  == workspace'[OutPipe]

\* this step of the model is a call of promote_outputs
PromoteCalled == pc[SeqCaller] = "idle" /\ pc'[SeqCaller] = "done"

\* every tmp path the outputs declare exists
AllTmpExist(outs, ws) == \A k \in 1..Len(outs) : ws[outs[k].tmp] # 0

\* the tmp paths and final paths the outputs declare are pairwise distinct
DistinctPaths(outs) ==
    Cardinality({outs[k].tmp : k \in 1..Len(outs)} \cup
                {outs[k].path : k \in 1..Len(outs)}) = 2 * Len(outs)

\* the call succeeded, every tmp path is gone, every final path holds what its
\* tmp path held, and no other path changed
PromotedAll(outs) ==
    /\ result'[SeqCaller] = Ok
    /\ \A k \in 1..Len(outs) :
          After[outs[k].tmp] = 0 /\ After[outs[k].path] = Before[outs[k].tmp]
    /\ \A f \in DOMAIN Before :
          (\A k \in 1..Len(outs) : f # outs[k].tmp /\ f # outs[k].path)
             => After[f] = Before[f]

Missing(outs, ws) == {k \in 1..Len(outs) : ws[outs[k].tmp] = 0}

\* the call failed with an error that names output k and says not found, and
\* the final path of output k was not created
FailedOn(outs, k) ==
    /\ ~result'[SeqCaller].ok
    /\ Contains(result'[SeqCaller].err, outs[k].name)
    /\ Contains(result'[SeqCaller].err, "not found")
    /\ Before[outs[k].path] = 0 => After[outs[k].path] = 0

RECURSIVE ErrorsOf(_)
ErrorsOf(log) ==
    IF log = << >> THEN << >>
    ELSE (IF Head(log).res.ok THEN << >> ELSE << Head(log).res.err >>)
            \o ErrorsOf(Tail(log))

\* how many calls of log were made on pipeline directory p
TimesTicked(log, p) == Cardinality({k \in 1..Len(log) : log[k].dir = p})

\* this step is the end of c's run invocation after its loop
ExitsAfterLoop(c) == cmd[c] = "listing" /\ cmd'[c] = "exited"

\* C17: when a run invocation ends after its loop, every directory with a
\* pipeline.yaml has been ticked exactly once and no other directory at all,
\* whatever the earlier calls returned; the errors it reports are the errors the
\* calls returned, all of them, and it reports them only when no directory is
\* left to visit; a step of a call on one pipeline changes neither the
\* persisted state nor the workspace of another pipeline
C17_EveryPipelineTickedOnce ==
    [][\A c \in Callers :
         /\ ExitsAfterLoop(c) =>
               /\ entries[c] = {}
               /\ \A p \in Pipes :
                     TimesTicked(attempted[c], p) =
                        (IF IsSome(pipeline_yaml[p]) THEN 1 ELSE 0)
               /\ errors[c] = ErrorsOf(attempted[c])
         /\ StepOf(c) =>
               \A q \in Pipes \ {pipeline_dir[c]} :
                   state_json'[q] = state_json[q] /\ workspace'[q] = workspace[q]]_vars

C17_Witness ==
    \E c \in Callers :
        /\ cmd[c] = "exited" /\ Len(attempted[c]) = 2
        /\ ~attempted[c][1].res.ok /\ attempted[c][2].res.ok
        /\ Len(errors[c]) = 1
        /\ \E i \in Ids : Persisted(state_json, attempted[c][2].dir, i) = "completed"

(***************************************************************************)
(* C18                                                                     *)
(***************************************************************************)
\* this step is the end of c's run invocation
RunExits(c) == cmd[c] \in {"none", "listing"} /\ cmd'[c] = "exited"

\* some call of run_pipeline of c's invocation returned an error
SomeTickFailed(c) == \E k \in 1..Len(attempted[c]) : ~attempted[c][k].res.ok

TimeoutError(n) == Err(<<"timed out after ", ToString(n), "s">>)

\* C19: when run_with_timeout finds the process of the claimed step still
\* running after the effective timeout (the step's own timeout, else the
\* configured one), it kills it and execution fails with the timeout error that
\* carries that number of seconds; the step is then persisted Failed; and a call
\* that waits for a process returns even if the process never exits
C19_TimeoutKillsAndFails ==
    /\ [][/\ (StepOf(SeqCaller) /\ pc[SeqCaller] = "child_expired"
               /\ exec'[SeqCaller] \notin {Ok, Err(<<"exited with code ", "1">>)}) =>
                 /\ exec'[SeqCaller] =
                       TimeoutError(effective_timeout(TicketStep(SeqCaller)))
                 /\ pc'[SeqCaller] = "save_failed"
          /\ (StepOf(SeqCaller) /\ pc[SeqCaller] = "save_failed") =>
                 Persisted(state_json', pipeline_dir[SeqCaller],
                           ticket[SeqCaller].step_id) = "failed"]_vars
    /\ (pc[SeqCaller] \in {"child", "child_expired"}) ~> (pc[SeqCaller] = "done")

C19_Witness ==
    /\ pc[SeqCaller] = "done"
    /\ exec[SeqCaller] = TimeoutError(StepTimeout)
    /\ Contains(result[SeqCaller].err, ToString(StepTimeout))
    /\ Persisted(state_json, pipeline_dir[SeqCaller], ticket[SeqCaller].step_id) = "failed"

(***************************************************************************)
(* C20                                                                     *)
(***************************************************************************)
\* every step of the installed pipeline p is persisted Completed
Finished(p) ==
    /\ IsSome(state_json[p])
    /\ \A i \in StepIds(Unwrap(pipeline_yaml[p])) :
          Persisted(state_json, p, i) = "completed"

\* C20: when run is invoked again and again, no invocation dies, and every
\* process exits zero before its timeout with its declared tmp files written,
\* every installed pipeline eventually has all its steps Completed and keeps
\* them so
C20_EventuallyAllCompleted ==
    \A p \in Pipes : IsSome(pipeline_yaml[p]) => <>[]Finished(p)

\* the same for the pipelines that have no agent step
C20_BashPipelinesComplete ==
    \A p \in Pipes :
        (/\ IsSome(pipeline_yaml[p])
         /\ \A k \in 1..Len(Unwrap(pipeline_yaml[p]).steps) :
               Unwrap(pipeline_yaml[p]).steps[k].step_type = "bash")
           => <>[]Finished(p)

(***************************************************************************)
(* C21                                                                     *)
(***************************************************************************)
\* the tick of c is the first that started since a reset deleted the state
NextTickAfterReset(c) == after_reset[pipeline_dir[c]] = c

\* C21: the first tick that starts after a reset deleted the state of a
\* pipeline decides on the all-Pending state and, when the pipeline has
\* steps, claims the first of them; also when the reset came while a step
\* of the pipeline was executing.
C21_NextTickStartsFresh ==
    [][\A c \in Callers :
          (pc[c] = "select" /\ StepOf(c) /\ NextTickAfterReset(c))
          => /\ Seen(c) = from_pipeline(pipeline[c])
             /\ pipeline[c].steps # << >>
                  => /\ pc'[c] = "execute"
                     /\ ticket'[c].step_index = 1]_vars

\* a reset came while a step was executing and the next tick has started
C21_Witness ==
    \E c, d \in Callers :
        /\ c # d
        /\ pc[c] = "select" /\ NextTickAfterReset(c)
        /\ pc[d] \in Holding /\ pipeline_dir[d] = pipeline_dir[c]

(***************************************************************************)
(* C22, C23                                                                *)
(***************************************************************************)
IsFile(t) == t[1] = "file"
FilePath(t) == t[2]

\* this step is run_with_timeout finding the process of c's step exited
Exited(c) ==
    /\ pc[c] \in {"child", "child_expired"}
    /\ pc'[c] \in {"promote", "save_failed"}
    /\ ~Contains(exec'[c].err, "timed out after ")

\* the workspace file a stream target names holds content v
RoutedTo(c, t, v) == IsFile(t) => workspace'[pipeline_dir[c]][FilePath(t)] = v

\* C22: when the process of a step has exited, the file named by the step's
\* output field holds the captured stdout and the file named by its error
\* field holds the captured stderr, each stream on its own.
C22_StreamsRoutedToFiles ==
    [][\A c \in Callers :
          Exited(c) => /\ RoutedTo(c, TicketStep(c).output, Captured(c).stdout)
                       /\ RoutedTo(c, TicketStep(c).error, Captured(c).stderr)]_vars

\* a process that printed on stdout has exited and its step names an output file
C22_Witness ==
    \E c \in Callers :
        /\ pc[c] \in {"promote", "save_failed"}
        /\ spawned[c]
        /\ ~Contains(exec[c].err, "timed out after ")
        /\ IsFile(TicketStep(c).output)
        /\ Captured(c).stdout # 0

\* a captured stream with target t and content v is discarded when t is
\* Void and written on the caller's own stream when t is Terminal
Mirrored(t, v, shown) ==
    /\ t = Void => shown = 0
    /\ t = Terminal => shown = v

\* C23: a stream whose field is null is discarded, neither mirrored nor
\* written, and a stream whose field is absent is mirrored to the caller's
\* own stream; in both cases no file is created.
C23_VoidDiscardsTerminalMirrors ==
    [][\A c \in Callers :
          Exited(c) =>
            /\ Mirrored(TicketStep(c).output, Captured(c).stdout, printed'[c].stdout)
            /\ Mirrored(TicketStep(c).error, Captured(c).stderr, printed'[c].stderr)
            /\ (~IsFile(TicketStep(c).output) /\ ~IsFile(TicketStep(c).error))
                 => workspace'[pipeline_dir[c]] = workspace[pipeline_dir[c]]]_vars

\* the half of C23 about absent fields: the stream is mirrored, no file appears
C23_TerminalMirrors ==
    [][\A c \in Callers :
          (Exited(c) /\ TicketStep(c).output = Terminal /\ TicketStep(c).error = Terminal)
          => /\ printed'[c] = Captured(c)
             /\ workspace'[pipeline_dir[c]] = workspace[pipeline_dir[c]]]_vars

\* a process that printed on stdout has exited and its step's output is null
C23_Witness ==
    \E c \in Callers :
        /\ pc[c] \in {"promote", "save_failed"}
        /\ spawned[c]
        /\ ~Contains(exec[c].err, "timed out after ")
        /\ TicketStep(c).output = Void
        /\ Captured(c).stdout # 0

(***************************************************************************)
(* C24, C25, C26                                                           *)
(***************************************************************************)
\* c holds a ticket for a step of the given type
Claimed(c, ty) == pc[c] \in Holding /\ TicketStep(c).step_type = ty

\* C24: a tick that claimed an agent step, in an environment in which every
\* process starts and exits zero and every output is promoted, persists
\* the step Completed and returns without error.
C24_AgentStepCompletes ==
    [][\A c \in Callers :
          (Returns(c) /\ Claimed(c, "agent"))
          => /\ result'[c].ok
             /\ Persisted(state_json', pipeline_dir[c], ticket[c].step_id) = "completed"]_vars

\* a tick that claimed an agent step has returned
C24_Witness ==
    \E c \in Callers :
        /\ pc[c] = "done" /\ ticket[c].step_index # 0
        /\ TicketStep(c).step_type = "agent"

\* C25: a tick that claimed an agent step whose collaborator binary cannot
\* be started persists the step Failed and returns the binary-not-found
\* error, which is not the error of a non-zero exit.
C25_MissingBinaryError ==
    [][\A c \in Callers :
          (Returns(c) /\ Claimed(c, "agent") /\ ResolvedPrompt(c).res.ok
             /\ resolve_binary \notin Installed)
          => /\ Persisted(state_json', pipeline_dir[c], ticket[c].step_id) = "failed"
             /\ Contains(result'[c].err, "openclaw binary not found")
             /\ ~Contains(result'[c].err, "exited with code ")]_vars

\* a tick that claimed an agent step has returned while OPENCLAW_BIN names
\* no program
C25_Witness ==
    \E c \in Callers :
        /\ pc[c] = "done" /\ ticket[c].step_index # 0
        /\ TicketStep(c).step_type = "agent"
        /\ ResolvedPrompt(c).res.ok
        /\ resolve_binary \notin Installed

\* no piece of the text is a macro
MacroFree(text) == \A k \in 1..Len(text) : ~IsMacro(text[k])

\* this step is execute_step on the step c claimed
Executes(c) == pc[c] = "execute" /\ pc'[c] # "execute" /\ pc'[c] # "idle"

\* C26: execute_step on an agent step whose prompt resolves invokes the
\* collaborator after the resolution, with the resolved prompt, in which
\* no macro is left; on a bash step it passes the script to the shell as
\* it is written.
C26_AgentGetsResolvedPrompt ==
    [][\A c \in Callers :
          /\ (Executes(c) /\ TicketStep(c).step_type = "agent" /\ ResolvedPrompt(c).res.ok)
               => /\ command'[c] = Some(build_command(Unwrap(TicketStep(c).agent),
                                                      ResolvedPrompt(c).text,
                                                      pipeline[c].workspace,
                                                      ticket[c].timeout_secs))
                  /\ MacroFree(ResolvedPrompt(c).text)
          /\ (Executes(c) /\ TicketStep(c).step_type = "bash" /\ spawned'[c])
               => Unwrap(command'[c]).args[2] = Unwrap(TicketStep(c).bash)]_vars

\* the half of C26 about bash steps: the shell gets the script as written
C26_BashScriptUnresolved ==
    [][\A c \in Callers :
          (Executes(c) /\ TicketStep(c).step_type = "bash" /\ spawned'[c])
          => Unwrap(command'[c]) = Command("sh", << Text("-c"), Unwrap(TicketStep(c).bash) >>,
                                           pipeline[c].workspace)]_vars

\* execute_step has run on an agent step whose prompt has macros and resolves
C26_Witness ==
    \E c \in Callers :
        /\ pc[c] = "save_failed" /\ TicketStep(c).step_type = "agent"
        /\ ~MacroFree(Unwrap(TicketStep(c).prompt))
        /\ ResolvedPrompt(c).res.ok

(***************************************************************************)
(* C27                                                                     *)
(***************************************************************************)
\* the Command build_command returned to c
Built(c) == Unwrap(command[c])

\* the arguments and the working directory the claim describes
ArgsAndDir(c) ==
    /\ Built(c).args = << <<"agent">>, <<"--message">>, Unwrap(BuildStep.prompt),
                          <<"--to">>, << Unwrap(BuildStep.agent) >>, <<"--local">>,
                          <<"--timeout">>, << ToString(Unwrap(BuildStep.timeout)) >> >>
    /\ Built(c).dir = Unwrap(pipeline_yaml[BuildPipe]).workspace

RawPrompt(c) == Unwrap(TicketStep(c).prompt)
Files(c) == workspace[pipeline_dir[c]]

\* the text in which each macro of the input, and nothing else, is replaced
\* by the content of the file it names
RECURSIVE Expanded(_, _)
Expanded(text, ws) ==
    IF text = << >> THEN << >>
    ELSE (IF IsMacro(Head(text)) THEN Content(FileAt(ws, MacroTable[Head(text)]))
          ELSE << Head(text) >>)
         \o Expanded(Tail(text), ws)

\* every file a macro of the text names can be read
AllReadable(text, ws) ==
    \A k \in 1..Len(text) : IsMacro(text[k]) => FileAt(ws, MacroTable[text[k]]) # 0

\* no file a macro of the text names holds macro text
PlainFiles(text, ws) ==
    \A k \in 1..Len(text) : IsMacro(text[k]) => FileAt(ws, MacroTable[text[k]]) <= MaxContent

\* execute_step has applied resolve_templates to the prompt of c's agent step
ResolveReturned(c) ==
    pc[c] \in {"save_failed", "done"} /\ ticket[c].step_index # 0
    /\ TicketStep(c).step_type = "agent"

\* C28: resolve_templates returns the input with every occurrence of a
\* macro, whatever the whitespace inside its braces and however often it
\* or its path occurs, replaced by the content of the file it names, and
\* with the text outside the macros unchanged; an input without macros is
\* returned unchanged.
C28_ResolveReplacesMacrosOnly ==
    \A c \in Callers :
        (ResolveReturned(c) /\ AllReadable(RawPrompt(c), Files(c)))
        => resolved[c] = Some(Expanded(RawPrompt(c), Files(c)))

\* C28 for files that hold no macro text
C28_PlainFilesResolved ==
    \A c \in Callers :
        (ResolveReturned(c) /\ AllReadable(RawPrompt(c), Files(c))
           /\ PlainFiles(RawPrompt(c), Files(c)))
        => resolved[c] = Some(Expanded(RawPrompt(c), Files(c)))

\* resolve_templates has returned for a prompt in which a macro occurs
\* twice, another once, and all files can be read
C28_Witness ==
    \E c \in Callers :
        /\ ResolveReturned(c) /\ AllReadable(RawPrompt(c), Files(c))
        /\ Len(Matches(RawPrompt(c))) = MaxPieces
        /\ RawPrompt(c)[1] = RawPrompt(c)[MaxPieces]
        /\ RawPrompt(c)[1] # RawPrompt(c)[2]

(***************************************************************************)
(* C29                                                                     *)
(***************************************************************************)
\* the first macro of the text, in the order of the text, whose file cannot be read
FirstUnreadable(text, ws) ==
    LET U == {k \in 1..Len(text) : IsMacro(text[k]) /\ FileAt(ws, MacroTable[text[k]]) = 0}
    IN text[CHOOSE k \in U : \A j \in U : k <= j]

\* the error names the macro text m and the path it resolves to under dir
NamesMacroAndPath(err, m, dir) ==
    /\ Contains(err, "': failed to read '")
    /\ \E i \in 1..Len(err) :
          /\ err[i] = m
          /\ \E j \in (i + 1)..(Len(err) - 2) :
                err[j] = dir /\ err[j + 1] = "/" /\ err[j + 2] = MacroTable[m]

\* C29: when a macro of the prompt of the claimed agent step names a file
\* that cannot be read, resolve_templates fails with an error that names
\* the macro and the path it resolves to and returns no prompt, no
\* collaborator is invoked, and the step is persisted Failed.
C29_UnreadableFileFails ==
    [][\A c \in Callers :
          (Returns(c) /\ Claimed(c, "agent") /\ ~AllReadable(RawPrompt(c), Files(c)))
          => /\ ~exec[c].ok
             /\ NamesMacroAndPath(exec[c].err, FirstUnreadable(RawPrompt(c), Files(c)),
                                   pipeline[c].workspace)
             /\ EndsWith(result'[c].err, exec[c].err)
             /\ resolved[c] = NoneOpt
             /\ ~spawned[c] /\ command[c] = NoneOpt
             /\ Persisted(state_json', pipeline_dir[c], ticket[c].step_id) = "failed"]_vars

\* a tick has returned whose agent step names a readable file and then an
\* unreadable one
C29_Witness ==
    \E c \in Callers :
        /\ pc[c] = "done" /\ ResolveReturned(c)
        /\ ~AllReadable(RawPrompt(c), Files(c))
        /\ IsMacro(RawPrompt(c)[1])
        /\ FirstUnreadable(RawPrompt(c), Files(c)) # RawPrompt(c)[1]

(***************************************************************************)
(* C30                                                                     *)
(***************************************************************************)
\* step k of the document lacks a field its type requires
Offends(doc, k) ==
    \/ doc.steps[k].step_type = "bash" /\ doc.steps[k].bash = NoneOpt
    \/ doc.steps[k].step_type = "agent"
         /\ (doc.steps[k].agent = NoneOpt \/ doc.steps[k].prompt = NoneOpt)

Offenders(doc) == {k \in 1..Len(doc.steps) : Offends(doc, k)}

\* the document on which c's call of pipeline::load ran
Loaded(c) == Unwrap(pipeline_yaml[pipeline_dir'[c]])

\* this step is c's call of pipeline::load on a document that deserializes
Loads(c) ==
    /\ pc[c] = "idle" /\ pc'[c] # "idle"
    /\ IsSome(pipeline_yaml[pipeline_dir'[c]])
    /\ from_str(Loaded(c)).ok

\* C30: a document in which a bash step has no bash field, or an agent
\* step has no agent or no prompt, is rejected with an error that names
\* the id of the first such step; every other document that deserializes
\* is accepted as it is; and a tick whose pipeline does not load returns
\* the error with no lock taken and no state or workspace file changed.
C30_ParseRejectsMissingFields ==
    [][\A c \in Callers :
          /\ (Loads(c) /\ Offenders(Loaded(c)) # {})
               => /\ ~parse(Loaded(c)).ok
                  /\ \E k \in Offenders(Loaded(c)) :
                        /\ \A j \in Offenders(Loaded(c)) : k <= j
                        /\ Contains(parse(Loaded(c)).err, Loaded(c).steps[k].id)
                        /\ Contains(result'[c].err, Loaded(c).steps[k].id)
          /\ (Loads(c) /\ Offenders(Loaded(c)) = {})
               => /\ parse(Loaded(c)).ok
                  /\ pc'[c] = "lock" /\ pipeline'[c] = Loaded(c)
          /\ (pc[c] = "idle" /\ pc'[c] = "done")
               => /\ ~result'[c].ok
                  /\ UNCHANGED <<state_lock, state_json, workspace>>
                  /\ seen'[c] = NoneOpt /\ ~wrote'[c] /\ ~spawned'[c]]_vars

\* a tick has returned the error of a document whose second step is the
\* first that lacks a field
C30_Witness ==
    \E c \in Callers :
        /\ pc[c] = "done" /\ ~result[c].ok
        /\ IsSome(pipeline_yaml[pipeline_dir[c]])
        /\ from_str(Unwrap(pipeline_yaml[pipeline_dir[c]])).ok
        /\ Offenders(Unwrap(pipeline_yaml[pipeline_dir[c]])) = {MaxSteps}

(***************************************************************************)
(* C31                                                                     *)
(***************************************************************************)
\* every step of the state has status st
AllStatus(s, st) == \A i \in DOMAIN s : s[i] = st

\* the state file of pipeline p in sj holds exactly the ids of pl, all Pending
FreshlyPersisted(sj, p, pl) ==
    /\ IsSome(sj[p])
    /\ DOMAIN Unwrap(sj[p]) = StepIds(pl)
    /\ AllStatus(Unwrap(sj[p]), "pending")

\* c's tick found no state file for a definition that has steps
StartsFromNothing(c) ==
    /\ pc[c] = "load_state"
    /\ state_json[pipeline_dir[c]] = NoneOpt
    /\ Len(pipeline[c].steps) > 0

\* c has claimed the first step of its definition
ClaimedFirst(c) ==
    /\ pc[c] = "execute"
    /\ ticket[c].step_index = 1
    /\ Persisted(state_json, pipeline_dir[c], pipeline[c].steps[1].id) = "running"

\* C31: a tick that finds no persisted state goes on to create it; that step
\* creates the workspace directory and persists a state whose keys are the
\* step ids of the definition, all Pending, while no step has been claimed by
\* the tick; the tick's selection on that state claims the first step of the
\* definition, and the tick does get there.
C31_FirstTickCreatesThenClaims ==
    /\ [][\A c \in Callers : StepOf(c) =>
            LET p == pipeline_dir[c] IN
            /\ (pc[c] = "load_state" /\ state_json[p] = NoneOpt)
                  => pc'[c] = "create_state" /\ UNCHANGED <<disk, claims>>
            /\ pc[c] = "create_state"
                  => /\ workspace_dir'[p]
                     /\ FreshlyPersisted(state_json', p, pipeline[c])
                     /\ ticket'[c] = NoTicket /\ ~wrote'[c] /\ ~spawned'[c]
                     /\ claims' = claims
                     /\ pc'[c] = "select"
            /\ (pc[c] = "select" /\ FreshlyPersisted(state_json, p, pipeline[c])
                  /\ Len(pipeline[c].steps) > 0)
                  => ClaimedFirst(c)']_vars
    /\ \A c \in Callers : StartsFromNothing(c) ~> ClaimedFirst(c)

C31_Witness ==
    /\ ClaimedFirst(SeqCaller)
    /\ ticks[pipeline_dir[SeqCaller]] = 0
    /\ workspace_dir[pipeline_dir[SeqCaller]]
    /\ Len(pipeline[SeqCaller].steps) > 1

(***************************************************************************)
(* SpecSave: concurrent callers on one pipeline whose state file may       *)
(* refuse the write of a claim                                             *)
(***************************************************************************)
SavedPipe == "p1"

\* state::save: the error of a write that the file system refuses
WriteError == Err(<<"failed to write state: ", "Permission denied">>)

\* faulty variant: the result of the write is dropped and the step runs
ClaimWriteIgnored(c) ==
    /\ pc[c] = "select"
    /\ LET s == Unwrap(state[c])
           i == IF IdsMatch(pipeline[c], s) THEN ScanSteps(pipeline[c], s, 1) ELSE 0
       IN /\ i # 0
          /\ state' = Set(state, c, Some(SetStatus(s, pipeline[c].steps[i].id, "running")))
          /\ ticket' = Set(ticket, c,
                 [step_index |-> i, step_id |-> pipeline[c].steps[i].id,
                  timeout_secs |-> effective_timeout(pipeline[c].steps[i])])
    /\ state_lock' = Released(c)
    /\ pc' = Set(pc, c, "execute")
    /\ UNCHANGED <<disk, pipeline_dir, pipeline, exec, result, hist, io, seqv, env, marks,
                   cli>>

\* acquire_ticket: state::save of the claim fails; the ? returns the error
\* from acquire_ticket and from run_pipeline, the lock file is dropped
ClaimWriteFails(c) ==
    /\ pc[c] = "select"
    /\ LET s == Unwrap(state[c]) IN
       /\ IdsMatch(pipeline[c], s)
       /\ ScanSteps(pipeline[c], s, 1) # 0
    /\ Finish(c, WriteError)
    /\ UNCHANGED <<disk, pipeline_dir, pipeline, state, ticket, exec, hist, io, seqv, env,
                   marks, cli>>

SaveCall(c) ==
    /\ LoadPipeline(c, SavedPipe)
    /\ UNCHANGED <<seqv, env, marks, cli>>

NextSave ==
    \/ \E c \in Callers : SaveCall(c)
    \/ \E c \in Callers : Steps(c)
    \/ \E c \in Callers : ClaimWriteFails(c)
    \/ \E c \in Callers : Return(c)
    \/ \E c \in Callers : Crash(c)

SpecSave == Init /\ [][NextSave]_vars

(***************************************************************************)
(* C32                                                                     *)
(***************************************************************************)
\* this step of the model is c spawning the process of its step
Spawns(c) == spawned'[c] /\ ~spawned[c]

\* c's call returned the error of a refused write without having claimed
ClaimRefused(c) == pc[c] = "done" /\ result[c] = WriteError /\ ticket[c] = NoTicket

\* C32: a caller spawns the process of a step only when it has written the
\* claim and the persisted state records that step as Running; the claim is
\* on disk at the step that leaves the selection, where nothing is spawned
\* yet; and a call whose claim was refused by the file system returns an
\* error, has spawned nothing and has left the state file as it was.
C32_SpawnOnlyAfterPersistedClaim ==
    [][\A c \in Callers :
          LET p == pipeline_dir[c] IN
          /\ Spawns(c) => /\ wrote[c]
                          /\ Persisted(state_json, p, ticket[c].step_id) = "running"
          /\ (StepOf(c) /\ pc[c] = "select" /\ pc'[c] = "execute")
                => /\ Persisted(state_json', p, ticket'[c].step_id) = "running"
                   /\ ~spawned'[c]
          /\ (StepOf(c) /\ ClaimRefused(c)')
                => /\ ~result'[c].ok
                   /\ ~spawned'[c] /\ ~wrote'[c] /\ command'[c] = NoneOpt
                   /\ state_json' = state_json]_vars

C32_Witness ==
    \E c, d \in Callers :
       /\ ClaimRefused(c)
       /\ spawned[d]
       /\ Persisted(state_json, SavedPipe, ticket[d].step_id) = "running"

(***************************************************************************)
(* C33                                                                     *)
(***************************************************************************)
\* the process of c's step on pipeline p is running
Executing(c, p) == pc[c] = "child" /\ pipeline_dir[c] = p

\* C33: a caller holds the state lock of its pipeline only at the positions
\* of acquire_ticket after the lock was taken, never while it holds a ticket;
\* while the process of a step is running, a second caller that has reached
\* the lock of the same pipeline finds it free unless a third caller is inside
\* acquire_ticket, and a second caller that makes its selection meanwhile has
\* read the step as Running and returns Ok without a ticket, without a write
\* and without spawning, the state file untouched.
C33_LockFreeWhileStepRuns ==
    /\ [](\A c \in Callers : \A p \in Pipes :
            /\ state_lock[p] = c
                  => pc[c] \in {"load_state", "create_state", "select"}
                     /\ pipeline_dir[c] = p
            /\ Executing(c, p)
                  => /\ state_lock[p] # c
                     /\ \A d \in Callers \ {c} :
                           (pc[d] = "lock" /\ pipeline_dir[d] = p)
                              => \/ state_lock[p] = Free
                                 \/ \E e \in Callers \ {c, d} : state_lock[p] = e)
    /\ [][\A c, d \in Callers : \A p \in Pipes :
            (/\ c # d
             /\ Executing(c, p)
             /\ pipeline_dir[d] = p /\ pc[d] = "select" /\ StepOf(d))
            => /\ Seen(d)[ticket[c].step_id] = "running"
               /\ pc'[d] = "done" /\ result'[d] = Ok
               /\ ticket'[d] = NoTicket /\ ~wrote'[d] /\ ~spawned'[d]
               /\ state_json' = state_json
               /\ Executing(c, p)']_vars

C33_Witness ==
    \E c, d \in Callers :
       /\ c # d
       /\ Executing(c, "p1")
       /\ pipeline_dir[d] = "p1" /\ pc[d] = "done" /\ result[d] = Ok
       /\ IsSome(seen[d]) /\ Seen(d)[ticket[c].step_id] = "running"
       /\ state_lock["p1"] = Free

(***************************************************************************)
(* C34                                                                     *)
(***************************************************************************)
\* the macro texts that the files included by the macros of the text hold
QuotedIn(text, ws) ==
    {QuotedMacros[FileAt(ws, MacroTable[text[k]]) - MaxContent] :
        k \in {j \in 1..Len(text) : IsMacro(text[j])
                                    /\ FileAt(ws, MacroTable[text[j]]) > MaxContent}}

\* C34: when an included file holds macro text, the result of
\* resolve_templates is the prompt with each of its own macros replaced by
\* the content of its file as it is, the macro text inside that content left
\* literally, whether or not the same macro text occurs in the prompt.
C34_IncludedMacrosLeftLiterally ==
    \A c \in Callers :
        (ResolveReturned(c) /\ AllReadable(RawPrompt(c), Files(c))
           /\ QuotedIn(RawPrompt(c), Files(c)) # {})
        => resolved[c] = Some(Expanded(RawPrompt(c), Files(c)))

\* C34 for prompts in which the macro text held by the included files does
\* not occur
C34_QuotedAbsentFromPrompt ==
    \A c \in Callers :
        (ResolveReturned(c) /\ AllReadable(RawPrompt(c), Files(c))
           /\ QuotedIn(RawPrompt(c), Files(c)) # {}
           /\ \A k \in 1..Len(RawPrompt(c)) :
                 RawPrompt(c)[k] \notin QuotedIn(RawPrompt(c), Files(c)))
        => resolved[c] = Some(Expanded(RawPrompt(c), Files(c)))

(***************************************************************************)
(* C35                                                                     *)
(***************************************************************************)
\* the statuses of s in the order of the definition: k times Completed, then
\* one status that may be anything, then Pending only
RunOfCompleted(pl, s, k) ==
    /\ \A j \in 1..k : s[pl.steps[j].id] = "completed"
    /\ \A j \in (k + 2)..Len(pl.steps) : s[pl.steps[j].id] = "pending"

\* the persisted state of pipeline p has that shape for its definition
WellShaped(p) ==
    LET pl == Unwrap(pipeline_yaml[p])
        s  == Unwrap(state_json[p])
    IN /\ DOMAIN s = StepIds(pl)
       /\ \E k \in 0..Len(pl.steps) : RunOfCompleted(pl, s, k)

\* C35: every persisted state reached from an absent state file by ticks
\* alone reads, in the order of the definition, as a run of Completed, then
\* at most one step that is Running or Failed, then Pending only; so at most
\* one step is Running and no step is Completed while an earlier one is not.
C35_CompletedThenOneOpenThenPending ==
    \A p \in Pipes :
       IsSome(state_json[p]) =>
          LET pl == Unwrap(pipeline_yaml[p])
              s  == Unwrap(state_json[p])
          IN /\ WellShaped(p)
             /\ Cardinality(WithStatus(s, "running")) <= 1
             /\ Cardinality(WithStatus(s, "running") \cup WithStatus(s, "failed")) <= 1
             /\ \A j \in 1..Len(pl.steps) :
                   s[pl.steps[j].id] = "completed"
                      => \A i \in 1..j : s[pl.steps[i].id] = "completed"

\* two callers at work on two pipelines: one Completed, one Running, one
\* Pending on the first, one step Failed before a Pending one on the second
C35_Witness ==
    /\ IsSome(state_json["p1"]) /\ IsSome(state_json["p2"])
    /\ LET pl == Unwrap(pipeline_yaml["p1"])
           s  == Unwrap(state_json["p1"])
       IN /\ Len(pl.steps) > 2
          /\ s[pl.steps[1].id] = "completed"
          /\ s[pl.steps[2].id] = "running"
          /\ s[pl.steps[3].id] = "pending"
    /\ LET pl == Unwrap(pipeline_yaml["p2"])
           s  == Unwrap(state_json["p2"])
       IN /\ Len(pl.steps) > 1
          /\ s[pl.steps[1].id] = "failed"
          /\ s[pl.steps[2].id] = "pending"

(***************************************************************************)
(* C36                                                                     *)
(***************************************************************************)
\* this step of the model is c writing the result of its step
WritesResult(c) == StepOf(c) /\ pc[c] \in {"save_completed", "save_failed"}

\* C36: the write of a step's result leaves the state file existing exactly
\* if it existed before the write and leaves the persisted status of every
\* step other than the claimed one as it was before the write, whatever a
\* reset or another caller did to the state while the step was executing.
C36_ResultWriteTouchesClaimedStepOnly ==
    [][\A c \in Callers :
          WritesResult(c) =>
             LET p == pipeline_dir[c] IN
             /\ IsSome(state_json'[p]) = IsSome(state_json[p])
             /\ \A i \in Ids \ {ticket[c].step_id} :
                   Persisted(state_json', p, i) = Persisted(state_json, p, i)]_vars

(***************************************************************************)
(* SpecPipe: one caller on a pipeline whose only step writes some blocks   *)
(* on one stream and exits with status 0.  The process is quick: the clock *)
(* reaches the timeout only while the process cannot move.                 *)
(***************************************************************************)
PipePipe == "p1"
Streams == {"stdout", "stderr"}

DefPipe(n, stream, out, to) ==
    Pipeline("workspace",
      << FullStep("a", "bash", NoneOpt, NoneOpt, out, out, Some(ZeroesScript(n, stream)),
                  to, << >>) >>)

InitPipe ==
    /\ \E n \in 0..MaxVolume, stream \in Streams, out \in {Terminal, Void},
          to \in {NoneOpt, Some(StepTimeout)} :
          pipeline_yaml = [p \in Pipes |-> IF p = PipePipe
                                          THEN Some(DefPipe(n, stream, out, to))
                                          ELSE Some(Def0)]
    /\ home = TRUE
    /\ openclaw_bin = NoneOpt
    /\ InitDisk
    /\ InitLocals

PipeCall ==
    /\ LoadPipeline(SeqCaller, PipePipe)
    /\ UNCHANGED <<seqv, env, marks, cli>>

\* the blocks the process of c's step has still to write on a stream
Unwritten(c, stream) == Volume(Unwrap(TicketStep(c).bash), stream) - pipe[c][stream]

\* the process of c's step writes one block into a captured pipe that has
\* room; run_with_timeout reads no pipe before the process has exited
PipeWrite(c) ==
    /\ pc[c] \in {"child", "child_expired"}
    /\ \E stream \in Streams :
          /\ Unwritten(c, stream) > 0
          /\ pipe[c][stream] < PipeCapacity
          /\ pipe' = [pipe EXCEPT ![c][stream] = @ + 1]
    /\ UNCHANGED <<disk, state_lock, pc, locals, hist, printed, command, resolved, seqv, env,
                   marks, cli>>

\* the process has written all it writes and exits with status 0; try_wait
\* finds it exited and wait_with_output reads the pipes
PipeChildExit(c) ==
    /\ pc[c] \in {"child", "child_expired"}
    /\ \A stream \in Streams : Unwritten(c, stream) = 0
    /\ ChildExit(c)
    /\ exec'[c] = Ok

\* the process is blocked in a write to a full pipe
Blocked(c) ==
    \E stream \in Streams : Unwritten(c, stream) > 0 /\ pipe[c][stream] = PipeCapacity

\* the timeout is reached: only a process that cannot move takes that long
PipeTimeout(c) ==
    /\ pc[c] = "child"
    /\ Blocked(c)
    /\ TimeoutElapses(c)

PipeSteps(c) ==
    \/ LockState(c)
    \/ LoadState(c)
    \/ CreateState(c)
    \/ SelectStep(c)
    \/ ExecuteStep(c)
    \/ PipeWrite(c)
    \/ PipeChildExit(c)
    \/ PipeTimeout(c)
    \/ KillChild(c)
    \/ Promote(c)
    \/ SaveCompleted(c)
    \/ SaveFailed(c)

NextPipe ==
    \/ PipeCall
    \/ PipeSteps(SeqCaller)
    \/ Return(SeqCaller)

SpecPipe == InitPipe /\ [][NextPipe]_vars /\ WF_vars(NextPipe)

(***************************************************************************)
(* C37                                                                     *)
(***************************************************************************)
\* this step of the model is run_with_timeout returning to c
Supervised(c) == pc[c] \in {"child", "child_expired"} /\ StepOf(c)
                 /\ pc'[c] \notin {"child", "child_expired"}

\* C37: run_with_timeout returns Ok for every process that exits with
\* status 0 within its timeout when left to run, whatever the number of
\* blocks it writes on its stdout or its stderr; no such process is killed.
C37_OutputVolumeNeverTimesOut ==
    [][\A c \in Callers : Supervised(c) => exec'[c] = Ok]_vars

\* C37 for the processes that write at most what a pipe holds
C37_SmallOutputSucceeds ==
    [][\A c \in Callers :
          (Supervised(c)
             /\ \A stream \in Streams :
                   Volume(Unwrap(TicketStep(c).bash), stream) <= PipeCapacity)
          => exec'[c] = Ok]_vars

(***************************************************************************)
(* SpecDup: the sequential caller drives one pipeline whose steps all      *)
(* succeed; the ids of the steps are any, also the same id twice           *)
(***************************************************************************)
DupPipe == "p1"
DupIds == {"a", "b"}

\* the definition whose k-th step is a bash step with the id ids[k]
DefDup(ids, to) ==
    Pipeline("workspace", [k \in DOMAIN ids |-> Step(ids[k], "bash", to, << >>)])

InitDup ==
    /\ \E n \in 1..(MaxSteps + 1) : \E ids \in [1..n -> DupIds] :
       \E to \in {NoneOpt, Some(StepTimeout)} :
          pipeline_yaml = [p \in Pipes |-> IF p = DupPipe THEN Some(DefDup(ids, to))
                                          ELSE Some(Def0)]
    /\ home = TRUE
    /\ openclaw_bin = NoneOpt
    /\ InitDisk
    /\ InitLocals

DupCall ==
    /\ ticks[DupPipe] < MaxTicks
    /\ LoadPipeline(SeqCaller, DupPipe)
    /\ UNCHANGED <<seqv, env, marks, cli>>

\* the process is spawned, exits with status 0 in time, and the result is saved
DupSteps(c) ==
    \/ LockState(c)
    \/ LoadState(c)
    \/ CreateState(c)
    \/ SelectStep(c)
    \/ ExecuteStep(c) /\ spawned'[c]
    \/ ChildExit(c) /\ exec'[c] = Ok
    \/ Promote(c)
    \/ SaveCompleted(c)

NextDup ==
    \/ DupCall
    \/ DupSteps(SeqCaller)
    \/ SeqReturn

SpecDup == InitDup /\ [][NextDup]_vars

(***************************************************************************)
(* C38                                                                     *)
(***************************************************************************)
\* run_pipeline, Ok arm: every step of the definition is Completed in s
all_done(pl, s) ==
    \A k \in 1..Len(pl.steps) :
       pl.steps[k].id \in DOMAIN s /\ s[pl.steps[k].id] = "completed"

\* this step of the model is c saving Completed and printing the notice
\* "pipeline completed"
PrintsCompleted(c) ==
    /\ pc[c] = "save_completed" /\ StepOf(c)
    /\ all_done(pipeline[c], Unwrap(state'[c]))

\* no two steps of the definition carry the same id
UniqueIds(pl) == Cardinality(StepIds(pl)) = Len(pl.steps)

\* the t-th tick of a pipeline of n steps claims step t when t <= n and
\* nothing afterwards, and the notice comes with the save of step n
InOrderOnce(c) ==
    LET p  == pipeline_dir[c]
        pl == pipeline[c]
    IN /\ (pc[c] = "select" /\ StepOf(c))
             => IF ticks[p] < Len(pl.steps)
                THEN pc'[c] = "execute" /\ ticket'[c].step_index = ticks[p] + 1
                ELSE pc'[c] = "done" /\ result'[c] = Ok /\ ticket'[c] = NoTicket
       /\ PrintsCompleted(c) => ticket[c].step_index = Len(pl.steps)

\* C38: when every step succeeds, the successive ticks of a pipeline that the
\* loader accepted execute step 1, step 2, ... of the definition, each once,
\* and the completion notice is printed by the tick that ran the last step;
\* also when two steps carry the same id.
C38_EveryStepOnceInOrder ==
    [][InOrderOnce(SeqCaller)]_vars

\* C38 for definitions whose step ids are distinct
C38_UniqueIdsOnceInOrder ==
    [][UniqueIds(pipeline[SeqCaller]) => InOrderOnce(SeqCaller)]_vars

(***************************************************************************)
(* C39                                                                     *)
(***************************************************************************)
\* C39: when promote_outputs fails on a step that declares several outputs,
\* the workspace is what it was before the call: no tmp path of the step has
\* been renamed, no final path has been created or overwritten.
C39_PromotionAllOrNothing ==
    [][(PromoteCalled /\ Len(PromotedOutputs) > 1 /\ ~result'[SeqCaller].ok)
          => After = Before]_vars

\* C39 for the calls that fail on the first declared output
C39_FirstOutputMissingNothingRenamed ==
    [][(PromoteCalled /\ Len(PromotedOutputs) > 1 /\ ~result'[SeqCaller].ok
          /\ Before[PromotedOutputs[1].tmp] = 0)
          => After = Before]_vars

====
